---- MODULE Spec2Model ----
(***************************************************************************)
(* A model of the scripting-utils library: the EventEmitter                *)
(* (src/src/event-emitter.ts), the Timeline (src/src/timeline.ts) and the  *)
(* item-hook dispatcher (src/src/index.ts).                                *)
(*                                                                         *)
(* EventEmitter.  JavaScript runs one call at a time, so the emitter's     *)
(* fields only change between the steps below.  A dispatch is not atomic:  *)
(* each handler is user code that may call back into the emitter before it *)
(* returns or throws, so an emission in progress is a frame on callStack   *)
(* and every API call may be made at top level or from inside the handler  *)
(* that the top frame is running.  An emitAsync call whose handler loop    *)
(* has ended waits in `pending` until its handlers' promises have settled. *)
(*                                                                         *)
(* Item hooks.  A step is a call of the registry or one world tick: the    *)
(* tick callback reads the players from the host and runs to its end, and  *)
(* the callbacks of the behaviors return or throw.                         *)
(***************************************************************************)
EXTENDS Integers, Sequences, FiniteSets, TLC

\* ---------------------------------------------------------------- bounds
MaxSubs == 3
MaxSubsTwo == 2
MaxPriority == 1
MaxCalls == 2
MaxCallsOne == 1
MaxCallsSync == 3
MaxDepth == 1
MaxDuration == 4
MaxProcess == 4
FractionSteps == 4
MaxCtorDuration == 2
MaxEntries == 3
MaxSlot == 1
MaxWorldTicks == 4
MaxHookTick == 3
MaxCreated == 3
MaxUseTicks == 2
MaxLifeTicks == 2
MaxStateTick == 3
MaxAmplifier == 6
MaxRawDamage == 8

\* ------------------------------------------------------- program constants
DefaultMaxEmissionDepth == 100

\* const duration = 20 of the Timeline class documentation
DocDuration == 20

\* const CLEANUP_INTERVAL = 200 of the item-hook dispatcher
CLEANUP_INTERVAL == 200

Events == {"A", "B"}
Priorities == 0..MaxPriority
Depths == 0..MaxDepth

VARIABLES
    scope,             \* the events in use and the subscriptions that may be made
    subscribers,       \* Map<event, InternalSubscriber[]>; <<>> is "no entry"
    idCounter,
    isEmitting,        \* Set<event>
    emissionStack,     \* event[]
    maxEmissionDepth,
    handles,           \* handles[id + 1]: the event the handle of id closes over
    callStack,         \* emit/emitAsync calls whose handler loop is running
    pending,           \* emitAsync calls suspended at await Promise.allSettled
    ret,               \* what the step just taken returned to its caller
    invoked,           \* invoked[id + 1]: calls made so far to once-handler id
    duration,
    sortedEvents,
    lastProcessedTick,
    fireCount,         \* fireCount[i]: how often the callback of sortedEvents[i] ran
    lastFired,         \* indices whose callback the most recent process call ran
    prevTick,          \* lastProcessedTick before the most recent process call
    monotone,          \* no reset, backward move or throwing callback so far
    nProcess,
    firedOrder,        \* the callbacks the most recent process call ran, in call order
    lastCall,          \* the most recent call: its clamped tick, whether it threw
    completedBefore,   \* clamped tick of the last process call that had completed
                       \* before the most recent call (-1: none)
    args,              \* the arguments given to new Timeline(...)
    constructed,       \* "pending", "ok", or "TimelineError" thrown by the constructor
    hookScope,         \* the players and what the host may present of them
    factoriesByItemType,         \* Map<string, HookedItemFactory>: item type |-> factory
    hookedItemWrappersByPlayer,  \* Map<Player, HookedItemWrapper>; NoWrapper is "no entry"
    cleanupCounter,
    nCreated,          \* nCreated[p]: behaviors created so far for player p
    onTickCount,       \* onTickCount[p]: onTick calls made so far to p's latest behavior
    calls,             \* calls[p]: the callbacks the step just taken called for p, in order
    lastUse,           \* lastUse[p]: the latest onStartUse or onStopUse call made for p
    world,             \* the players as the most recent tick found them
    hookThrew,         \* whether the step just taken threw to its caller
    nTicks,
    state,             \* StateDrivenHookedItem.state: the current state object
    currentTickOf,     \* currentTickOf[s]: the _currentTick field of state object s
    updateCount,       \* updateCount[s]: the update calls made so far to s
    updateThrows,      \* updateThrows[s]: how many of them threw
    forwarded,         \* the state callbacks the step just taken called, in order
    machineThrew,      \* whether the step just taken threw to its caller
    resistanceEffect,  \* entity.getEffect("resistance"): NoEffect or its amplifier
    rawDamage,         \* the rawDamage given to calculateFinalDamage
    resistanceReduction,  \* what calculateResistanceReduction returned, in percent
    finalDamage        \* what calculateFinalDamage returned, in hundredths

eeVars == <<scope, subscribers, idCounter, isEmitting, emissionStack, maxEmissionDepth,
            handles, callStack, pending, ret, invoked>>
tlVars == <<duration, sortedEvents, lastProcessedTick, fireCount, lastFired,
            prevTick, monotone, nProcess, firedOrder, lastCall, completedBefore,
            args, constructed>>
ihVars == <<hookScope, factoriesByItemType, hookedItemWrappersByPlayer, cleanupCounter,
            nCreated, onTickCount, calls, lastUse, world, hookThrew, nTicks>>
smVars == <<state, currentTickOf, updateCount, updateThrows, forwarded, machineThrew>>
dmVars == <<resistanceEffect, rawDamage, resistanceReduction, finalDamage>>
vars == <<eeVars, tlVars, ihVars, smVars, dmVars>>

\* ------------------------------------------------------------ sequences
Pop(s) == IF s = <<>> THEN s ELSE SubSeq(s, 1, Len(s) - 1)

\* Array.prototype.splice(at, 0, x), at counted from 0
Splice(s, at, x) == SubSeq(s, 1, at) \o <<x>> \o SubSeq(s, at + 1, Len(s))

Ids(s) == [k \in 1..Len(s) |-> s[k].id]

IdSet(s) == {s[k].id : k \in 1..Len(s)}

\* ------------------------------------------------------ EventEmitter.on
\* The while loop of on(): left and right count from 0, list[mid + 1] is
\* eventSubscribers[mid].
RECURSIVE BinarySearchUnstable(_, _, _, _)
BinarySearchUnstable(list, priority, left, right) ==
    IF left > right THEN left
    ELSE LET mid == (left + right) \div 2
         IN  IF list[mid + 1].priority > priority
             THEN BinarySearchUnstable(list, priority, mid + 1, right)
             ELSE BinarySearchUnstable(list, priority, left, mid - 1)

RECURSIVE BinarySearch(_, _, _, _)
BinarySearch(list, priority, left, right) ==
    IF left > right THEN left
    ELSE LET mid == (left + right) \div 2
         IN  IF list[mid + 1].priority >= priority
             THEN BinarySearch(list, priority, mid + 1, right)
             ELSE BinarySearch(list, priority, left, mid - 1)

\* The four branches by which on() places the new subscriber.
InsertSubscriber(list, sub) ==
    IF Len(list) = 0 THEN Append(list, sub)
    ELSE IF sub.priority <= list[Len(list)].priority THEN Append(list, sub)
    ELSE IF sub.priority > list[1].priority THEN <<sub>> \o list
    ELSE Splice(list, BinarySearch(list, sub.priority, 0, Len(list) - 1), sub)

\* What a step hands back to its caller, for a step that leaves the
\* dispatches in progress alone.
NoRet == [op |-> "none"]

Returns(value) ==
    /\ ret' = value
    /\ UNCHANGED <<callStack, pending, invoked>>

\* on(eventName, handler, {once, priority}); once(eventName, handler, priority)
\* is on() with once = TRUE.
On(e, once, priority) ==
    /\ idCounter < scope.subs
    /\ LET sub == [id |-> idCounter, once |-> once, priority |-> priority,
                   active |-> TRUE]
       IN  subscribers' = [subscribers EXCEPT ![e] = InsertSubscriber(@, sub)]
    /\ idCounter' = idCounter + 1
    /\ handles' = Append(handles, e)
    /\ UNCHANGED <<scope, isEmitting, emissionStack, maxEmissionDepth>>
    /\ Returns(NoRet)
    /\ UNCHANGED <<tlVars, ihVars, smVars, dmVars>>

\* --------------------------------------------- subscription management
\* subscribers.filter((sub) => sub.id !== handlerId)
RemoveFromId(list, handlerId) == SelectSeq(list, LAMBDA sub : sub.id < handlerId)

RemoveById(list, handlerId) == SelectSeq(list, LAMBDA sub : sub.id # handlerId)

\* off(eventName, handlerId), as the handle's unsubscribe() calls it
off(subs, e, handlerId) ==
    IF subs[e] = <<>> THEN subs
    ELSE [subs EXCEPT ![e] = RemoveById(@, handlerId)]

\* off(eventName) without an id
offAll(subs, e) == [subs EXCEPT ![e] = <<>>]

\* A setSubscriptionState that assigns the flag of every subscriber of
\* the event, whatever its id
setSubscriptionStateOfEvent(subs, e, handlerId, active) ==
    [subs EXCEPT ![e] = [k \in 1..Len(@) |-> [@[k] EXCEPT !.active = active]]]

\* isSubscriptionActive: the active flag of the subscriber found by id in
\* the event's list, false when there is none
isSubscriptionActive(subs, e, handlerId) ==
    LET found == {k \in 1..Len(subs[e]) : subs[e][k].id = handlerId}
    IN  IF found = {} THEN FALSE
        ELSE subs[e][CHOOSE k \in found : TRUE].active

\* setSubscriptionState: find the subscriber by id and assign its active flag
setSubscriptionState(subs, e, handlerId, active) ==
    LET found == {k \in 1..Len(subs[e]) : subs[e][k].id = handlerId}
    IN  IF found = {} THEN subs
        ELSE [subs EXCEPT ![e][CHOOSE k \in found : TRUE].active = active]

listenerCount(e) == Len(subscribers[e])

activeListenerCount(e) == Len(SelectSeq(subscribers[e], LAMBDA sub : sub.active))

Unsubscribe(id) ==
    /\ id < idCounter
    /\ subscribers' = off(subscribers, handles[id + 1], id)
    /\ UNCHANGED <<scope, idCounter, handles, isEmitting, emissionStack, maxEmissionDepth>>
    /\ Returns(NoRet)
    /\ UNCHANGED <<tlVars, ihVars, smVars, dmVars>>

Off(e) ==
    /\ subscribers' = offAll(subscribers, e)
    /\ UNCHANGED <<scope, idCounter, handles, isEmitting, emissionStack, maxEmissionDepth>>
    /\ Returns(NoRet)
    /\ UNCHANGED <<tlVars, ihVars, smVars, dmVars>>

RemoveAllListeners ==
    /\ subscribers' = [e \in Events |-> <<>>]
    /\ isEmitting' = {}
    /\ emissionStack' = <<>>
    /\ UNCHANGED <<scope, idCounter, handles, maxEmissionDepth>>
    /\ Returns(NoRet)
    /\ UNCHANGED <<tlVars, ihVars, smVars, dmVars>>

Pause(id) ==
    /\ id < idCounter
    /\ subscribers' = setSubscriptionState(subscribers, handles[id + 1], id, FALSE)
    /\ UNCHANGED <<scope, idCounter, handles, isEmitting, emissionStack, maxEmissionDepth>>
    /\ Returns(NoRet)
    /\ UNCHANGED <<tlVars, ihVars, smVars, dmVars>>

Resume(id) ==
    /\ id < idCounter
    /\ subscribers' = setSubscriptionState(subscribers, handles[id + 1], id, TRUE)
    /\ UNCHANGED <<scope, idCounter, handles, isEmitting, emissionStack, maxEmissionDepth>>
    /\ Returns(NoRet)
    /\ UNCHANGED <<tlVars, ihVars, smVars, dmVars>>

Max(a, b) == IF a >= b THEN a ELSE b

SetMaxEmissionDepth(depth) ==
    /\ maxEmissionDepth' = Max(1, depth)
    /\ UNCHANGED <<scope, subscribers, idCounter, handles, isEmitting, emissionStack>>
    /\ Returns(NoRet)
    /\ UNCHANGED <<tlVars, ihVars, smVars, dmVars>>

\* ------------------------------------------------------ emit / emitAsync
Range(s) == {s[k] : k \in 1..Len(s)}

\* subscribers.filter((sub) => sub.active): the dispatch snapshot.  The loop
\* reads only the handler and the once flag of a snapshot's subscriber.
ActiveSnapshotAll(list) ==
    [k \in 1..Len(list) |->
       [id |-> list[k].id, once |-> list[k].once, priority |-> list[k].priority]]

ActiveSnapshot(list) ==
    LET act == SelectSeq(list, LAMBDA sub : sub.active)
    IN  [k \in 1..Len(act) |->
           [id |-> act[k].id, once |-> act[k].once, priority |-> act[k].priority]]

cleanupFirstOnce(subs, e, toRemove) ==
    IF Len(toRemove) = 0 THEN subs
    ELSE IF subs[e] = <<>> THEN subs
    ELSE [subs EXCEPT ![e] = SelectSeq(@, LAMBDA sub : sub.id # toRemove[1])]

cleanupOnceSubscribers(subs, e, toRemove) ==
    IF Len(toRemove) = 0 THEN subs
    ELSE IF subs[e] = <<>> THEN subs
    ELSE [subs EXCEPT ![e] = SelectSeq(@, LAMBDA sub : sub.id \notin Range(toRemove))]

CleanupAfterAwait(subs, e, toRemove) == subs

\* The cleanup emitAsync makes after its handler loop, before it awaits
CleanupBeforeAwait(subs, e, toRemove) == cleanupOnceSubscribers(subs, e, toRemove)

\* The guards at the head of emit and emitAsync, in the code's order
NoSubscribers(e) == subscribers[e] = <<>>

\* A same-event guard that looks at the innermost emission only
DirectRecursionInnermost(e) ==
    emissionStack # <<>> /\ emissionStack[Len(emissionStack)] = e

DirectRecursion(e) == e \in isEmitting

DepthPassed(stack, depth) == Len(stack) > depth

DepthExceeded(stack, depth) == Len(stack) >= depth

PushResultFront(results, sub) == <<sub.id>> \o results

\* results.push(result): the value a handler returns is written as its id
PushResult(results, sub) == Append(results, sub.id)

\* The loop of emitAsync over settledResults: out[k] is the state of the
\* promise of handler k of the snapshot.
RECURSIVE Successful(_, _)
Successful(snap, out) ==
    IF out = <<>> THEN <<>>
    ELSE LET rest == Successful(snap, Pop(out))
         IN  IF out[Len(out)] = "fulfilled"
             THEN Append(rest, snap[Len(out)].id) ELSE rest

RECURSIVE FailedOrdinal(_)
FailedOrdinal(out) ==
    IF out = <<>> THEN <<>>
    ELSE LET rest == FailedOrdinal(Pop(out))
         IN  IF out[Len(out)] = "rejected"
             THEN Append(rest, [handlerIndex |-> Len(rest)]) ELSE rest

RECURSIVE Failed(_)
Failed(out) ==
    IF out = <<>> THEN <<>>
    ELSE LET rest == Failed(Pop(out))
         IN  IF out[Len(out)] = "rejected"
             THEN Append(rest, [handlerIndex |-> Len(out) - 1]) ELSE rest

AsyncOp(async) == IF async THEN "emitAsync" ELSE "emit"

\* An emit that a guard ended: [] or {successful: [], failed: []}, after
\* sinkCalls calls to the error sink
Empty(async, e, why, sinkCalls) ==
    [op |-> AsyncOp(async), ev |-> e, status |-> why, snap |-> <<>>, out |-> <<>>,
     results |-> <<>>, failed |-> <<>>, nerr |-> sinkCalls]

\* safeOnError(error): onError is called inside try/catch, and what it throws
\* goes to console.error.  The value is whether the call throws to its caller.
safeOnErrorUncaught(sinkThrows) == sinkThrows

safeOnError(sinkThrows) == FALSE

SinkThrows == scope.onError = "throws"

\* An emit that threw to its caller, an emitAsync whose promise rejected
Thrown(async, e) ==
    [op |-> AsyncOp(async), ev |-> e, status |-> "threw", snap |-> <<>>, out |-> <<>>,
     results |-> <<>>, failed |-> <<>>, nerr |-> 1]

\* A guard ended the call after reporting to the error sink
Guarded(async, e, why) ==
    IF safeOnError(SinkThrows) THEN Thrown(async, e) ELSE Empty(async, e, why, 1)

\* A finally block that leaves the event marked as emitting
KeepGuard(emitting, e) == emitting

\* this.isEmitting.delete(eventName) in the finally block of emit and emitAsync
ReleaseGuard(emitting, e) == emitting \ {e}

\* An exception leaves the handler loop of emit: only the finally block runs
Abort(f, below) ==
    /\ callStack' = below
    /\ ret' = Thrown(f.async, f.ev)
    /\ isEmitting' = ReleaseGuard(isEmitting, f.ev)
    /\ emissionStack' = Pop(emissionStack)
    /\ UNCHANGED <<subscribers, pending, invoked>>

\* The handler loop has ended: the once cleanup, then for emit the finally
\* block and the return, for emitAsync the suspension at the await.
FinishLoop(f, below, emitting, stack) ==
    /\ callStack' = below
    /\ invoked' = invoked
    /\ IF f.async
       THEN /\ subscribers' = CleanupBeforeAwait(subscribers, f.ev, f.toRemove)
            /\ pending' = Append(pending, [ev |-> f.ev, snap |-> f.snap, out |-> f.out])
            /\ isEmitting' = emitting
            /\ emissionStack' = stack
            /\ ret' = [op |-> "emitAsync", ev |-> f.ev, status |-> "awaiting"]
       ELSE /\ subscribers' = cleanupOnceSubscribers(subscribers, f.ev, f.toRemove)
            /\ pending' = pending
            /\ isEmitting' = ReleaseGuard(emitting, f.ev)
            /\ emissionStack' = Pop(stack)
            /\ ret' = [op |-> "emit", ev |-> f.ev, status |-> "done",
                       snap |-> f.snap, out |-> f.out, results |-> f.results,
                       failed |-> <<>>, nerr |-> f.nerr]

\* What the handler loop iterates: the array filter returned when the
\* dispatch began, whatever has happened to the subscriber lists since
IteratedLive(f, subs) ==
    SubSeq(f.snap, 1, f.i) \o
    SelectSeq(SubSeq(f.snap, f.i + 1, Len(f.snap)),
              LAMBDA sub : \E k \in 1..Len(subs[f.ev]) :
                              subs[f.ev][k].id = sub.id /\ subs[f.ev][k].active)

Iterated(f, subs) == f.snap

\* The for loop over activeSubscribers: call the next handler of the
\* snapshot, or leave the loop.  f.i handlers have been called so far.
Continue(f, below, emitting, stack) ==
    IF f.i < Len(Iterated(f, subscribers))
    THEN LET sub == Iterated(f, subscribers)[f.i + 1]
             g == [f EXCEPT !.i = @ + 1,
                            !.toRemove = IF f.async /\ sub.once
                                         THEN Append(@, sub.id) ELSE @]
         IN  /\ callStack' = Append(below, g)
             /\ invoked' = IF sub.once THEN [invoked EXCEPT ![sub.id + 1] = @ + 1]
                           ELSE invoked
             /\ isEmitting' = emitting
             /\ emissionStack' = stack
             /\ ret' = NoRet
             /\ UNCHANGED <<subscribers, pending>>
    ELSE FinishLoop(f, below, emitting, stack)

\* emit(eventName, data) and emitAsync(eventName, data) up to the point where
\* the first handler is running
Emit(e, async) ==
    /\ UNCHANGED <<scope, idCounter, handles, maxEmissionDepth>>
    /\ UNCHANGED <<tlVars, ihVars, smVars, dmVars>>
    /\ IF NoSubscribers(e)
       THEN /\ Returns(Empty(async, e, "nosubs", 0))
            /\ UNCHANGED <<subscribers, isEmitting, emissionStack>>
       ELSE IF DirectRecursion(e)
       THEN /\ Returns(Guarded(async, e, "recursive"))
            /\ UNCHANGED <<subscribers, isEmitting, emissionStack>>
       ELSE IF DepthExceeded(emissionStack, maxEmissionDepth)
       THEN /\ Returns(Guarded(async, e, "depth"))
            /\ UNCHANGED <<subscribers, isEmitting, emissionStack>>
       ELSE /\ Len(callStack) + Len(pending) < scope.calls
            /\ async => scope.async
            /\ LET f == [ev |-> e, async |-> async,
                         snap |-> ActiveSnapshot(subscribers[e]), i |-> 0,
                         out |-> <<>>, results |-> <<>>, toRemove |-> <<>>,
                         nerr |-> 0]
               IN  Continue(f, callStack, isEmitting \cup {e},
                            Append(emissionStack, e))

\* The handler that the top frame is running returns, throws, or (under
\* emitAsync) returns a promise that is still pending.
HandlerEnd(outcome) ==
    /\ callStack # <<>>
    /\ LET f == callStack[Len(callStack)]
           sub == f.snap[f.i]
       IN  IF f.async
           THEN LET g == [f EXCEPT !.out = Append(@, outcome)]
                IN  Continue(g, Pop(callStack), isEmitting, emissionStack)
           ELSE /\ outcome \in {"fulfilled", "rejected"}
                /\ LET threw == outcome = "rejected"
                       g == [f EXCEPT
                               !.out = Append(@, outcome),
                               !.results = IF threw THEN @ ELSE PushResult(@, sub),
                               !.nerr = IF threw THEN @ + 1 ELSE @,
                               !.toRemove = IF sub.once THEN Append(@, sub.id) ELSE @]
                   IN  IF threw /\ safeOnError(SinkThrows)
                       THEN Abort(f, Pop(callStack))
                       ELSE Continue(g, Pop(callStack), isEmitting, emissionStack)
    /\ UNCHANGED <<scope, idCounter, handles, maxEmissionDepth>>
    /\ UNCHANGED <<tlVars, ihVars, smVars, dmVars>>

\* A promise that a handler returned to emitAsync settles.
Settle(p, k, outcome) ==
    /\ p \in 1..Len(pending)
    /\ k \in 1..Len(pending[p].out)
    /\ pending[p].out[k] = "pending"
    /\ pending' = [pending EXCEPT ![p].out[k] = outcome]
    /\ ret' = NoRet
    /\ UNCHANGED <<scope, subscribers, idCounter, isEmitting, emissionStack,
                   maxEmissionDepth, handles, callStack, invoked>>
    /\ UNCHANGED <<tlVars, ihVars, smVars, dmVars>>

RemoveAt(s, p) == SubSeq(s, 1, p - 1) \o SubSeq(s, p + 1, Len(s))

\* emitAsync after await Promise.allSettled: the results are sorted into
\* successful and failed, each failure goes to the error sink, and the
\* finally block releases the guards.
Resolve(p) ==
    /\ callStack = <<>>
    /\ p \in 1..Len(pending)
    /\ \A k \in 1..Len(pending[p].out) : pending[p].out[k] # "pending"
    /\ LET c == pending[p]
           failed == Failed(c.out)
       IN  /\ ret' = IF failed # <<>> /\ safeOnError(SinkThrows)
                      THEN Thrown(TRUE, c.ev)
                      ELSE [op |-> "emitAsync", ev |-> c.ev, status |-> "done",
                            snap |-> c.snap, out |-> c.out,
                            results |-> Successful(c.snap, c.out), failed |-> failed,
                            nerr |-> Len(failed)]
           /\ isEmitting' = ReleaseGuard(isEmitting, c.ev)
    /\ emissionStack' = Pop(emissionStack)
    /\ pending' = RemoveAt(pending, p)
    /\ UNCHANGED <<scope, subscribers, idCounter, maxEmissionDepth, handles,
                   callStack, invoked>>
    /\ UNCHANGED <<tlVars, ihVars, smVars, dmVars>>

\* ------------------------------------------------------------- Timeline
\* A fraction key is written as its numerator over FractionSteps, so
\* Math.floor(percentage * duration) is (numerator * duration) \div FractionSteps.
Fractions == 0..FractionSteps

TickOf(percentage, d) == (percentage * d) \div FractionSteps

BeforeByTick(a, b) == a.tick - b.tick < 0

\* The comparator of the constructor's sort: a.tick - b.tick, then
\* a.percentage - b.percentage
Before(a, b) ==
    LET tickDiff == a.tick - b.tick
    IN  IF tickDiff # 0 THEN tickDiff < 0 ELSE a.percentage - b.percentage < 0

RECURSIVE Sort(_)
Sort(set) ==
    IF set = {} THEN <<>>
    ELSE LET first == CHOOSE a \in set : \A b \in set \ {a} : Before(a, b)
         IN  <<first>> \o Sort(set \ {first})

\* new Timeline(duration, timelineRecord) for a record the constructor accepts
Construct(d, keys) ==
    Sort({[tick |-> TickOf(percentage, d), executed |-> FALSE,
           percentage |-> percentage] : percentage \in keys})

\* ------------------------------------------------- Timeline constructor
\* A JavaScript number as the constructor tests it: finite with a value, or
\* not finite (NaN, Infinity, a key that parseFloat cannot read).
Num(n) == [finite |-> TRUE, value |-> n]

NotFinite == [finite |-> FALSE, value |-> 0]

\* !Number.isFinite(duration) || duration <= 0
InvalidDuration(d) == ~d.finite \/ d.value <= 0

\* !timelineRecord || Object.keys(timelineRecord).length === 0
EmptyRecord(record) == record.null \/ Len(record.entries) = 0

AboveRange(percentage) == percentage > FractionSteps

\* percentage < 0 || percentage > 1
OutOfRange(percentage) == percentage < 0 \/ percentage > FractionSteps

\* The checks the map callback makes on entry k; seenPercentages holds the
\* percentages of the entries before it.
EntryError(entries, k) ==
    LET percentage == entries[k].key
    IN  \/ ~percentage.finite
        \/ OutOfRange(percentage.value)
        \/ \E j \in 1..(k - 1) : entries[j].key = percentage
        \/ ~entries[k].func

\* Array.prototype.sort with the constructor's comparator: a stable sort
RECURSIVE InsertSorted(_, _)
InsertSorted(list, x) ==
    IF list = <<>> THEN <<x>>
    ELSE IF Before(x, Head(list)) THEN <<x>> \o list
    ELSE <<Head(list)>> \o InsertSorted(Tail(list), x)

RECURSIVE SortEntries(_)
SortEntries(seq) ==
    IF seq = <<>> THEN <<>>
    ELSE InsertSorted(SortEntries(Pop(seq)), seq[Len(seq)])

\* The events the map callback returns, in the order of Object.entries
MapEntries(d, entries) ==
    [k \in 1..Len(entries) |->
        [tick |-> TickOf(entries[k].key.value, d), executed |-> FALSE,
         percentage |-> entries[k].key.value]]

Min(a, b) == IF a <= b THEN a ELSE b

\* Math.max(0, Math.min(tick, this.duration))
Clamp(tick) == Max(0, Min(tick, duration))

ResetNothing(events) == events

\* reset(): every event unexecuted
ResetEvents(events) ==
    [k \in 1..Len(events) |-> [events[k] EXCEPT !.executed = FALSE]]

\* The loop of process() stops at the first event that lies after the tick
NotYetDueLate(event, currentTick) == event.tick >= currentTick

NotYetDue(event, currentTick) == event.tick > currentTick

ShouldExecuteAgain(event, last) == event.tick > last

\* The test of process() that decides whether an event's callback is run
ShouldExecute(event, last) == ~event.executed /\ event.tick > last

\* A loop that marks an event executed before it calls its callback
RECURSIVE ProcessLoopMarksFirst(_, _, _, _, _, _)
ProcessLoopMarksFirst(events, k, currentTick, last, bad, fired) ==
    IF k > Len(events) \/ NotYetDue(events[k], currentTick)
    THEN [events |-> events, fired |-> fired, threw |-> FALSE]
    ELSE IF ShouldExecute(events[k], last)
    THEN IF k = bad
         THEN [events |-> [events EXCEPT ![k].executed = TRUE], fired |-> fired,
               threw |-> TRUE]
         ELSE ProcessLoopMarksFirst([events EXCEPT ![k].executed = TRUE], k + 1,
                                    currentTick, last, bad, Append(fired, k))
    ELSE ProcessLoopMarksFirst(events, k + 1, currentTick, last, bad, fired)

\* The for loop of process() from event k on.  bad is the index of the event
\* whose callback throws when called (0: none does).
RECURSIVE ProcessLoop(_, _, _, _, _, _)
ProcessLoop(events, k, currentTick, last, bad, fired) ==
    IF k > Len(events) \/ NotYetDue(events[k], currentTick)
    THEN [events |-> events, fired |-> fired, threw |-> FALSE]
    ELSE IF ShouldExecute(events[k], last)
    THEN IF k = bad
         THEN [events |-> events, fired |-> fired, threw |-> TRUE]
         ELSE ProcessLoop([events EXCEPT ![k].executed = TRUE], k + 1,
                          currentTick, last, bad, Append(fired, k))
    ELSE ProcessLoop(events, k + 1, currentTick, last, bad, fired)

\* new Timeline(duration, timelineRecord)
NewTimeline ==
    /\ constructed = "pending"
    /\ IF \/ InvalidDuration(args.duration)
          \/ EmptyRecord(args.record)
          \/ \E k \in 1..Len(args.record.entries) : EntryError(args.record.entries, k)
       THEN /\ constructed' = "TimelineError"
            /\ UNCHANGED <<duration, sortedEvents, fireCount>>
       ELSE /\ constructed' = "ok"
            /\ duration' = args.duration.value
            /\ sortedEvents' = SortEntries(MapEntries(args.duration.value,
                                                     args.record.entries))
            /\ fireCount' = [k \in 1..Len(args.record.entries) |-> 0]
    /\ UNCHANGED <<lastProcessedTick, lastFired, prevTick, monotone, nProcess,
                   firedOrder, lastCall, completedBefore, args>>
    /\ UNCHANGED <<eeVars, ihVars, smVars, dmVars>>

\* The clamped tick of the last process call that has completed (-1: none)
CompletedTick ==
    IF lastCall.op = "process" /\ ~lastCall.threw THEN lastCall.tick
    ELSE completedBefore

\* process(tick, args)
Process(tick, bad) ==
    /\ constructed = "ok"
    /\ nProcess < MaxProcess
    /\ nProcess' = nProcess + 1
    /\ LET currentTick == Clamp(tick)
           backward == currentTick < lastProcessedTick
           last == IF backward THEN -1 ELSE lastProcessedTick
           events == IF backward THEN ResetEvents(sortedEvents) ELSE sortedEvents
           r == ProcessLoop(events, 1, currentTick, last, bad, <<>>)
       IN  /\ sortedEvents' = r.events
           /\ lastProcessedTick' = IF r.threw THEN last ELSE currentTick
           /\ fireCount' = [k \in 1..Len(fireCount) |->
                              IF k \in Range(r.fired) THEN fireCount[k] + 1
                              ELSE fireCount[k]]
           /\ lastFired' = Range(r.fired)
           /\ firedOrder' = r.fired
           /\ lastCall' = [op |-> "process", tick |-> currentTick, threw |-> r.threw,
                           thrower |-> IF r.threw THEN bad ELSE 0]
           /\ prevTick' = lastProcessedTick
           /\ monotone' = (monotone /\ ~backward /\ ~r.threw)
    /\ completedBefore' = CompletedTick
    /\ UNCHANGED <<duration, args, constructed>>
    /\ UNCHANGED <<eeVars, ihVars, smVars, dmVars>>

\* reset()
Reset ==
    /\ constructed = "ok"
    /\ nProcess < MaxProcess
    /\ nProcess' = nProcess + 1
    /\ lastProcessedTick' = -1
    /\ sortedEvents' = ResetEvents(sortedEvents)
    /\ monotone' = FALSE
    /\ lastFired' = {}
    /\ firedOrder' = <<>>
    /\ lastCall' = [op |-> "reset", tick |-> -1, threw |-> FALSE, thrower |-> 0]
    /\ completedBefore' = CompletedTick
    /\ prevTick' = lastProcessedTick
    /\ UNCHANGED <<duration, fireCount, args, constructed>>
    /\ UNCHANGED <<eeVars, ihVars, smVars, dmVars>>

\* ------------------------------------------------- item hooks (index.ts)
\* A player's status as the tick callback finds it: "ok" (valid, with its
\* equippable, health and inventory components, health above 0), "nocomp"
\* (valid, a component missing), "dead" (valid, currentValue <= 0),
\* "invalid" (listed by getPlayers() but isValid is false) and "gone" (not
\* listed by getPlayers()).  held is the typeId of the mainhand item stack,
\* NoItem when getItemStackSafely returns undefined.
NoItem == "none"

ItemTypes == {"a", "b"}

Slots == 0..MaxSlot

NoWrapper == [exists |-> FALSE]

\* The callbacks of one player's behaviors that throw during a step: none,
\* the factory, onTick, onDelete, or every one of them.
Throws(outcome, callback) == outcome = callback \/ outcome = "all"

Called(callback, wrapper, threw) ==
    [callback |-> callback, instance |-> wrapper.instance,
     currentTick |-> wrapper.currentTick, threw |-> threw, result |-> "none"]

OnDeleteUncaught(threw) == threw

\* try { wrapper.instance.onDelete?.() } catch (error) { console.error(...) }:
\* whether the exception leaves deleteWrapper
OnDeleteEscapes(threw) == FALSE

deleteWrapperStopsUse(s, player, outcome) ==
    LET wrapperToDelete == s.wrappers[player]
        threw == Throws(outcome, "onDelete")
        stopped == IF wrapperToDelete.isUsing
                   THEN <<Called("onStopUse", wrapperToDelete, FALSE)>> ELSE <<>>
    IN IF ~wrapperToDelete.exists
       THEN s
       ELSE [s EXCEPT !.wrappers[player] = NoWrapper,
                      !.calls[player] = (@ \o stopped) \o
                                        <<Called("onDelete", wrapperToDelete, threw)>>,
                      !.escaped = OnDeleteEscapes(threw)]

\* s is the dispatcher's state while a step runs: the wrappers map, the
\* callbacks called so far, the behaviors created so far for each player,
\* the onTick calls made to the latest of them and whether an exception is
\* propagating.
deleteWrapper(s, player, outcome) ==
    LET wrapperToDelete == s.wrappers[player]
        threw == Throws(outcome, "onDelete")
    IN IF ~wrapperToDelete.exists
       THEN s
       ELSE [s EXCEPT !.wrappers[player] = NoWrapper,
                      !.calls[player] = Append(@, Called("onDelete", wrapperToDelete, threw)),
                      !.escaped = OnDeleteEscapes(threw)]

areItemsEquivalent(item1, item2) ==
    IF item1 = NoItem /\ item2 = NoItem THEN TRUE
    ELSE IF item1 = NoItem \/ item2 = NoItem THEN FALSE
    ELSE item1 = item2

isHoldingSameItem(lastWrapper, itemStack, selectedSlotIndex) ==
    /\ lastWrapper.exists
    /\ lastWrapper.itemType = itemStack
    /\ lastWrapper.initialSlotIndex = selectedSlotIndex
    /\ areItemsEquivalent(lastWrapper.initialItemStack, itemStack)

\* hookFactoryForCurrentItem, NoItem standing for undefined
hookFactoryForCurrentItem(registry, lastWrapper, itemStack, same) ==
    IF same THEN lastWrapper.factory
    ELSE IF itemStack = NoItem THEN NoItem
    ELSE IF itemStack \in DOMAIN registry THEN registry[itemStack]
    ELSE NoItem

shouldDeleteWrapper(lastWrapper, itemStack, same, factory) ==
    /\ lastWrapper.exists
    /\ \/ ~same
       \/ itemStack = NoItem
       \/ factory = NoItem
       \/ lastWrapper.deleteOnNextTick

shouldCreateNewHookAlso(itemStack, same, factory) ==
    itemStack # NoItem /\ factory # NoItem

shouldCreateNewHook(itemStack, same, factory) ==
    ~same /\ itemStack # NoItem /\ factory # NoItem

\* The try block that builds the context and calls the factory.  A factory
\* that throws leaves the player without a wrapper and ends onTickPlayer.
CreateHook(s, player, itemStack, selectedSlotIndex, factory, outcome) ==
    LET newWrapper == [exists |-> TRUE,
                       itemType |-> itemStack,
                       initialItemStack |-> itemStack,
                       initialSlotIndex |-> selectedSlotIndex,
                       factory |-> factory,
                       instance |-> s.created[player] + 1,
                       currentTick |-> 0,
                       isUsing |-> FALSE,
                       deleteOnNextTick |-> FALSE]
        threw == Throws(outcome, "factory")
        called == [s EXCEPT !.calls[player] = Append(@, Called("factory", newWrapper, threw)),
                            !.created[player] = @ + 1,
                            !.ticked[player] = 0]
    IN IF threw
       THEN called
       ELSE [called EXCEPT !.wrappers[player] = newWrapper]

SafeTickCountsThrows(s, player, itemStack, outcome) ==
    LET wrapperForThisTick == s.wrappers[player]
        threw == Throws(outcome, "onTick")
    IN IF ~(wrapperForThisTick.exists /\ itemStack # NoItem)
       THEN s
       ELSE [s EXCEPT !.calls[player] = Append(@, Called("onTick", wrapperForThisTick, threw)),
                      !.ticked[player] = @ + 1,
                      !.wrappers[player] =
                          [@ EXCEPT !.currentTick = @ + 1, !.deleteOnNextTick = threw]]

\* Safe tick execution: onTick, then currentTick++, or deleteOnNextTick
SafeTick(s, player, itemStack, outcome) ==
    LET wrapperForThisTick == s.wrappers[player]
        threw == Throws(outcome, "onTick")
    IN IF ~(wrapperForThisTick.exists /\ itemStack # NoItem)
       THEN s
       ELSE [s EXCEPT !.calls[player] = Append(@, Called("onTick", wrapperForThisTick, threw)),
                      !.ticked[player] = @ + 1,
                      !.wrappers[player] =
                          IF threw THEN [@ EXCEPT !.deleteOnNextTick = TRUE]
                          ELSE [@ EXCEPT !.currentTick = @ + 1]]

onTickPlayer(s, registry, w, player, outcome) ==
    LET lastWrapper == s.wrappers[player]
        itemStack == w[player].held
        selectedSlotIndex == w[player].slot
        same == isHoldingSameItem(lastWrapper, itemStack, selectedSlotIndex)
        factory == hookFactoryForCurrentItem(registry, lastWrapper, itemStack, same)
        deleted == IF shouldDeleteWrapper(lastWrapper, itemStack, same, factory)
                   THEN deleteWrapper(s, player, outcome)
                   ELSE s
        create == shouldCreateNewHook(itemStack, same, factory)
        created == IF create
                   THEN CreateHook(deleted, player, itemStack, selectedSlotIndex,
                                   factory, outcome)
                   ELSE deleted
    IN IF w[player].status \in {"invalid", "nocomp", "dead"}
       THEN deleteWrapper(s, player, outcome)
       ELSE IF deleted.escaped THEN deleted
       ELSE IF create /\ ~created.wrappers[player].exists THEN created
       ELSE SafeTick(created, player, itemStack, outcome)

\* for (const player of players) onTickPlayer(player); an exception that
\* leaves onTickPlayer leaves the loop
RECURSIVE TickPlayers(_, _, _, _, _)
TickPlayers(s, registry, w, outcomes, list) ==
    IF list = <<>> \/ s.escaped THEN s
    ELSE TickPlayers(IF w[Head(list)].status = "gone"
                     THEN s
                     ELSE onTickPlayer(s, registry, w, Head(list), outcomes[Head(list)]),
                     registry, w, outcomes, Tail(list))

\* performPeriodicCleanup
RECURSIVE performPeriodicCleanup(_, _, _, _)
performPeriodicCleanup(s, w, outcomes, list) ==
    IF list = <<>> \/ s.escaped THEN s
    ELSE performPeriodicCleanup(IF w[Head(list)].status \in {"invalid", "gone"}
                                THEN deleteWrapper(s, Head(list), outcomes[Head(list)])
                                ELSE s,
                                w, outcomes, Tail(list))

TickCallbackUnguarded(s, registry, w, outcomes, list) ==
    LET ticked == TickPlayers(s, registry, w, outcomes, list)
        counted == [ticked EXCEPT !.cleanupCounter = @ + 1]
    IN IF ticked.escaped THEN ticked
       ELSE IF counted.cleanupCounter >= CLEANUP_INTERVAL
       THEN performPeriodicCleanup([counted EXCEPT !.cleanupCounter = 0], w, outcomes, list)
       ELSE counted

\* The system.runInterval callback
TickCallback(s, registry, w, outcomes, list) ==
    LET ticked == TickPlayers(s, registry, w, outcomes, list)
        counted == [ticked EXCEPT !.cleanupCounter = @ + 1]
    IN IF Cardinality(DOMAIN registry) <= 0 THEN s
       ELSE IF ticked.escaped THEN ticked
       ELSE IF counted.cleanupCounter >= CLEANUP_INTERVAL
       THEN performPeriodicCleanup([counted EXCEPT !.cleanupCounter = 0], w, outcomes, list)
       ELSE counted

NoCalls == [p \in Range(hookScope.players) |-> <<>>]

Running ==
    [wrappers |-> hookedItemWrappersByPlayer, calls |-> NoCalls, created |-> nCreated,
     ticked |-> onTickCount, cleanupCounter |-> cleanupCounter, escaped |-> FALSE]

\* One world tick: the host presents the world w, the behaviors' callbacks
\* end as outcomes says.
WorldTick(w, outcomes) ==
    /\ nTicks < hookScope.ticks
    /\ \A p \in Range(hookScope.players) :
          /\ nCreated[p] < MaxCreated
          /\ hookedItemWrappersByPlayer[p].exists =>
                hookedItemWrappersByPlayer[p].currentTick < MaxHookTick
    /\ \E r \in {TickCallback(Running, factoriesByItemType, w, outcomes, hookScope.players)} :
          /\ hookedItemWrappersByPlayer' = r.wrappers
          /\ calls' = r.calls
          /\ nCreated' = r.created
          /\ onTickCount' = r.ticked
          /\ cleanupCounter' = r.cleanupCounter
          /\ hookThrew' = r.escaped
    /\ world' = w
    /\ nTicks' = nTicks + 1
    /\ UNCHANGED <<hookScope, factoriesByItemType, lastUse>>
    /\ UNCHANGED <<eeVars, tlVars, smVars, dmVars>>

UseFailedKeeps(wrapper) == wrapper

\* The catch blocks of the itemStartUse and itemStopUse handlers
UseFailed(wrapper) == [wrapper EXCEPT !.isUsing = FALSE]

\* canUse returns true or false or throws; onStartUse and onStopUse return
\* or throw.
Asked(wrapper, outcome) ==
    [Called("canUse", wrapper, outcome = "canUse") EXCEPT
        !.result = IF outcome = "canUse" THEN "none"
                   ELSE IF outcome = "false" THEN "false" ELSE "true"]

\* The itemStartUse handler for the wrapper of e.source; itemStack is
\* e.itemStack's typeId, selectedSlotIndex that of e.source.
itemStartUse(wrapper, itemStack, selectedSlotIndex, outcome) ==
    LET using == [wrapper EXCEPT !.isUsing = TRUE]
        started == Called("onStartUse", using, outcome = "onStartUse")
    IN IF itemStack = NoItem THEN [wrapper |-> wrapper, calls |-> <<>>]
       ELSE IF ~wrapper.exists THEN [wrapper |-> wrapper, calls |-> <<>>]
       ELSE IF wrapper.itemType # itemStack THEN [wrapper |-> wrapper, calls |-> <<>>]
       ELSE IF wrapper.initialSlotIndex # selectedSlotIndex
       THEN [wrapper |-> wrapper, calls |-> <<>>]
       ELSE IF wrapper.isUsing THEN [wrapper |-> wrapper, calls |-> <<>>]
       ELSE IF outcome = "canUse"
       THEN [wrapper |-> UseFailed(wrapper), calls |-> <<Asked(wrapper, outcome)>>]
       ELSE IF outcome = "false"
       THEN [wrapper |-> wrapper, calls |-> <<Asked(wrapper, outcome)>>]
       ELSE IF outcome = "onStartUse"
       THEN [wrapper |-> UseFailed(using), calls |-> <<Asked(wrapper, outcome), started>>]
       ELSE [wrapper |-> using, calls |-> <<Asked(wrapper, outcome), started>>]

itemStopUseUnchecked(wrapper, itemStack, selectedSlotIndex, outcome) ==
    IF ~wrapper.exists THEN [wrapper |-> wrapper, calls |-> <<>>]
    ELSE [wrapper |-> [wrapper EXCEPT !.isUsing = FALSE],
          calls |-> <<Called("onStopUse", wrapper, outcome = "onStopUse")>>]

\* The itemStopUse handler; the event may carry no item stack.
itemStopUse(wrapper, itemStack, selectedSlotIndex, outcome) ==
    LET idle == [wrapper EXCEPT !.isUsing = FALSE]
        stopped == Called("onStopUse", idle, outcome = "onStopUse")
    IN IF ~wrapper.exists THEN [wrapper |-> wrapper, calls |-> <<>>]
       ELSE IF itemStack # NoItem /\ wrapper.itemType # itemStack
       THEN [wrapper |-> wrapper, calls |-> <<>>]
       ELSE IF wrapper.initialSlotIndex # selectedSlotIndex
       THEN [wrapper |-> wrapper, calls |-> <<>>]
       ELSE IF ~wrapper.isUsing THEN [wrapper |-> wrapper, calls |-> <<>>]
       ELSE IF outcome = "onStopUse"
       THEN [wrapper |-> UseFailed(idle), calls |-> <<stopped>>]
       ELSE [wrapper |-> idle, calls |-> <<stopped>>]

NoUse == [instance |-> 0, callback |-> "none", threw |-> FALSE]

\* The onStartUse or onStopUse call of log if it has one, else last
LatestUse(last, log) ==
    IF log = <<>> \/ log[Len(log)].callback = "canUse" THEN last
    ELSE [instance |-> log[Len(log)].instance, callback |-> log[Len(log)].callback,
          threw |-> log[Len(log)].threw]

\* What a use event handler did for the player becomes the state.
Used(player, r) ==
    /\ hookedItemWrappersByPlayer' = [hookedItemWrappersByPlayer EXCEPT ![player] = r.wrapper]
    /\ calls' = [NoCalls EXCEPT ![player] = r.calls]
    /\ lastUse' = [lastUse EXCEPT ![player] = LatestUse(@, r.calls)]
    /\ hookThrew' = FALSE
    /\ UNCHANGED <<hookScope, factoriesByItemType, nCreated, onTickCount, cleanupCounter,
                   world, nTicks>>
    /\ UNCHANGED <<eeVars, tlVars, smVars, dmVars>>

ItemStartUse(player, itemStack, selectedSlotIndex, outcome) ==
    \E r \in {itemStartUse(hookedItemWrappersByPlayer[player], itemStack,
                           selectedSlotIndex, outcome)} : Used(player, r)

ItemStopUse(player, itemStack, selectedSlotIndex, outcome) ==
    \E r \in {itemStopUse(hookedItemWrappersByPlayer[player], itemStack,
                          selectedSlotIndex, outcome)} : Used(player, r)

\* What a handler that only deletes or notifies did becomes the state.
Handled(r) ==
    /\ hookedItemWrappersByPlayer' = r.wrappers
    /\ calls' = r.calls
    /\ hookThrew' = r.escaped
    /\ UNCHANGED <<hookScope, factoriesByItemType, nCreated, onTickCount, cleanupCounter,
                   lastUse, world, nTicks>>
    /\ UNCHANGED <<eeVars, tlVars, smVars, dmVars>>

\* world.beforeEvents.playerLeave: deleteWrapper(player)
PlayerLeave(player, outcome) ==
    \E r \in {deleteWrapper(Running, player, outcome)} : Handled(r)

\* system.beforeEvents.shutdown: deleteWrapper for every key of the map
RECURSIVE shutdown(_, _, _)
shutdown(s, outcomes, list) ==
    IF list = <<>> \/ s.escaped THEN s
    ELSE shutdown(deleteWrapper(s, Head(list), outcomes[Head(list)]), outcomes, Tail(list))

Shutdown(outcomes) ==
    \E r \in {shutdown(Running, outcomes, hookScope.players)} : Handled(r)

\* The entityHitEntity, entityHitBlock, playerBreakBlock and entityHurt
\* handlers: the callback of the player's wrapper inside try/catch
NotifiedAnyway(s, player, callback, outcome) ==
    [s EXCEPT !.calls[player] =
        Append(@, [callback |-> callback, instance |-> s.created[player],
                   currentTick |-> 0, threw |-> outcome = callback, result |-> "none"])]

Notified(s, player, callback, outcome) ==
    IF ~s.wrappers[player].exists THEN s
    ELSE [s EXCEPT !.calls[player] =
             Append(@, Called(callback, s.wrappers[player], outcome = callback))]

EntityCallbacks == {"onHitEntity", "onHitBlock", "onBreakBlock", "onHurt"}

EntityEvent(player, callback, outcome) ==
    \E r \in {Notified(Running, player, callback, outcome)} : Handled(r)

\* Map.prototype.set, delete and clear
EmptyMap == [key \in {} |-> NoItem]

MapSet(map, key, value) ==
    [k \in DOMAIN map \cup {key} |-> IF k = key THEN value ELSE map[k]]

MapDelete(map, key) == [k \in DOMAIN map \ {key} |-> map[k]]

RegisterOverwrites(itemType, factory) ==
    /\ hookThrew' = FALSE
    /\ factoriesByItemType' = MapSet(factoriesByItemType, itemType, factory)
    /\ UNCHANGED <<hookScope, hookedItemWrappersByPlayer, nCreated, onTickCount,
                   cleanupCounter, calls, lastUse, world, nTicks>>
    /\ UNCHANGED <<eeVars, tlVars, smVars, dmVars>>

\* ItemHookRegistry.register
Register(itemType, factory) ==
    /\ IF itemType \in DOMAIN factoriesByItemType
       THEN /\ hookThrew' = TRUE
            /\ UNCHANGED factoriesByItemType
       ELSE /\ hookThrew' = FALSE
            /\ factoriesByItemType' = MapSet(factoriesByItemType, itemType, factory)
    /\ UNCHANGED <<hookScope, hookedItemWrappersByPlayer, nCreated, onTickCount,
                   cleanupCounter, calls, lastUse, world, nTicks>>
    /\ UNCHANGED <<eeVars, tlVars, smVars, dmVars>>

\* ItemHookRegistry.unregister
Unregister(itemType) ==
    /\ factoriesByItemType' = MapDelete(factoriesByItemType, itemType)
    /\ hookThrew' = FALSE
    /\ UNCHANGED <<hookScope, hookedItemWrappersByPlayer, nCreated, onTickCount,
                   cleanupCounter, calls, lastUse, world, nTicks>>
    /\ UNCHANGED <<eeVars, tlVars, smVars, dmVars>>

\* ItemHookRegistry.unregisterAll
UnregisterAll ==
    /\ factoriesByItemType' = EmptyMap
    /\ hookThrew' = FALSE
    /\ UNCHANGED <<hookScope, hookedItemWrappersByPlayer, nCreated, onTickCount,
                   cleanupCounter, calls, lastUse, world, nTicks>>
    /\ UNCHANGED <<eeVars, tlVars, smVars, dmVars>>

HookStart(sc, counter) ==
    /\ hookScope = [sc EXCEPT !.counters = {counter}]
    /\ factoriesByItemType = EmptyMap
    /\ hookedItemWrappersByPlayer = [p \in Range(sc.players) |-> NoWrapper]
    /\ cleanupCounter = counter
    /\ nCreated = [p \in Range(sc.players) |-> 0]
    /\ onTickCount = [p \in Range(sc.players) |-> 0]
    /\ calls = [p \in Range(sc.players) |-> <<>>]
    /\ lastUse = [p \in Range(sc.players) |-> NoUse]
    /\ world = [p \in Range(sc.players) |-> [status |-> "ok", held |-> NoItem, slot |-> 0]]
    /\ hookThrew = FALSE
    /\ nTicks = 0

\* The dispatcher as the module leaves it when loaded, for the
\* specifications of the other classes
HookIdle == HookStart([players |-> <<>>, held |-> {}, slots |-> {}, statuses |-> {},
                       outcomes |-> {}, counters |-> {0}, factories |-> {},
                       ticks |-> 0], 0)

\* --------------------------- state machine (state-driven-hooked-item.ts)
\* The state objects a behavior may be given.  Each is a HookedItemState
\* with its own _currentTick field; a state callback may return or throw.
States == {"s1", "s2", "s3"}

StateCallbacks == {"onDelete", "onTick", "canUse", "onStartUse", "onStopUse",
                   "onHitEntity", "onHitBlock", "onBreakBlock", "onHurt"}

\* One call of a callback of state object s, with the currentTick it can read
StateCalled(s, callback, ticks, threw) ==
    [state |-> s, callback |-> callback, currentTick |-> ticks[s], threw |-> threw]

\* HookedItemState.update: onTick, and when it returned, _currentTick++
update(ticks, s, threw) ==
    IF threw THEN ticks ELSE [ticks EXCEPT ![s] = @ + 1]

\* changeState(newState): onExit on this.state, this.state = newState,
\* onEnter on this.state; outcome names the callback that throws, if any.
\* The result is the state afterwards and the calls made.
changeStateReplacesFirst(current, newState, ticks, outcome) ==
    IF outcome = "onExit"
    THEN [state |-> newState,
          called |-> <<StateCalled(current, "onExit", ticks, TRUE)>>,
          threw |-> TRUE]
    ELSE [state |-> newState,
          called |-> <<StateCalled(current, "onExit", ticks, FALSE),
                       StateCalled(newState, "onEnter", ticks, outcome = "onEnter")>>,
          threw |-> outcome = "onEnter"]

changeState(current, newState, ticks, outcome) ==
    IF outcome = "onExit"
    THEN [state |-> current,
          called |-> <<StateCalled(current, "onExit", ticks, TRUE)>>,
          threw |-> TRUE]
    ELSE [state |-> newState,
          called |-> <<StateCalled(current, "onExit", ticks, FALSE),
                       StateCalled(newState, "onEnter", ticks, outcome = "onEnter")>>,
          threw |-> outcome = "onEnter"]

ChangeState(newState, outcome) ==
    /\ \E r \in {changeState(state, newState, currentTickOf, outcome)} :
          /\ state' = r.state
          /\ forwarded' = r.called
          /\ machineThrew' = r.threw
    /\ UNCHANGED <<currentTickOf, updateCount, updateThrows>>
    /\ UNCHANGED <<eeVars, tlVars, ihVars, dmVars>>

\* The callbacks of the owning behavior: each calls the matching callback of
\* this.state (onTick calls update) and has no try/catch of its own.
ForwardToFirst(callback) == "s1"

Forward(callback) == state

Callback(callback, threw) ==
    /\ callback = "onTick" => updateCount[state] < MaxStateTick
    /\ \E s \in {Forward(callback)} :
          /\ forwarded' = <<StateCalled(s, callback, currentTickOf, threw)>>
          /\ IF callback = "onTick"
             THEN /\ currentTickOf' = update(currentTickOf, s, threw)
                  /\ updateCount' = [updateCount EXCEPT ![s] = @ + 1]
                  /\ updateThrows' = [updateThrows EXCEPT ![s] = @ + (IF threw THEN 1 ELSE 0)]
             ELSE UNCHANGED <<currentTickOf, updateCount, updateThrows>>
    /\ machineThrew' = threw
    /\ UNCHANGED state
    /\ UNCHANGED <<eeVars, tlVars, ihVars, dmVars>>

\* A behavior whose state field was initialised to initial, every state
\* object new
MachineStart(initial) ==
    /\ state = initial
    /\ currentTickOf = [s \in States |-> 0]
    /\ updateCount = [s \in States |-> 0]
    /\ updateThrows = [s \in States |-> 0]
    /\ forwarded = <<>>
    /\ machineThrew = FALSE

MachineIdle == MachineStart("s1")

\* ------------------------------------------- damage helper (part_001)
\* The entity is one without armor: getEquippedArmorArray gives [], so that
\* calculateArmorReduction and calculateEnchantmentReduction return 0.
\* Fractions are written in percent, damage in hundredths of a point.
NoEffect == -1

NotCalled == -1

\* calculateResistanceReduction(entity): the switch over
\* highestResistanceLevel, which starts at 0 and is raised to the amplifier
\* of the effect when the entity has one
highestResistanceLevel(effect) ==
    IF effect = NoEffect THEN 0 ELSE IF effect > 0 THEN effect ELSE 0

calculateResistanceReduction(effect) ==
    LET level == highestResistanceLevel(effect)
    IN  CASE level = 0 -> 0
          [] level = 1 -> 20
          [] level = 2 -> 40
          [] level = 3 -> 60
          [] level = 4 -> 80
          [] OTHER -> 100

\* calculateFinalDamage(entity, rawDamage) for the entity without armor
CalculateFinalDamage ==
    /\ finalDamage = NotCalled
    /\ IF rawDamage <= 0
       THEN /\ finalDamage' = rawDamage * 100
            /\ resistanceReduction' = NotCalled
       ELSE \E r \in {calculateResistanceReduction(resistanceEffect)} :
               /\ resistanceReduction' = r
               /\ finalDamage' = Max(100, rawDamage * (100 - r))
    /\ UNCHANGED <<resistanceEffect, rawDamage>>
    /\ UNCHANGED <<eeVars, tlVars, ihVars, smVars>>

DamageStart(effect, raw) ==
    /\ resistanceEffect = effect
    /\ rawDamage = raw
    /\ resistanceReduction = NotCalled
    /\ finalDamage = NotCalled

DamageIdle == DamageStart(NoEffect, 0)

\* ------------------------------------------------------- specifications
\* The emitter is exercised with one event, up to MaxSubs subscriptions and
\* MaxCallsOne emit calls in progress at a time, or with two events, up to
\* MaxSubsTwo subscriptions, MaxCalls emissions in progress at a time and
\* emitAsync as well as emit.
Scopes == {[events |-> {"A"}, subs |-> MaxSubs, calls |-> MaxCallsOne, async |-> FALSE,
            onError |-> "returns"],
           [events |-> Events, subs |-> MaxSubsTwo, calls |-> MaxCalls, async |-> TRUE,
            onError |-> "returns"],
           [events |-> {"A"}, subs |-> MaxSubsTwo, calls |-> MaxCallsOne, async |-> TRUE,
            onError |-> "throws"]}

EmitterInit ==
    /\ scope \in Scopes
    /\ subscribers = [e \in Events |-> <<>>]
    /\ idCounter = 0
    /\ isEmitting = {}
    /\ emissionStack = <<>>
    /\ maxEmissionDepth = DefaultMaxEmissionDepth
    /\ handles = <<>>
    /\ callStack = <<>>
    /\ pending = <<>>
    /\ ret = NoRet
    /\ invoked = [k \in 1..scope.subs |-> 0]

TimelineInit(d, keys) ==
    /\ duration = d
    /\ sortedEvents = Construct(d, keys)
    /\ lastProcessedTick = -1
    /\ fireCount = [k \in 1..Cardinality(keys) |-> 0]
    /\ lastFired = {}
    /\ prevTick = -1
    /\ monotone = TRUE
    /\ nProcess = 0
    /\ firedOrder = <<>>
    /\ lastCall = [op |-> "none", tick |-> -1, threw |-> FALSE, thrower |-> 0]
    /\ completedBefore = -1
    /\ args = [duration |-> Num(d),
               record |-> [null |-> FALSE,
                           entries |-> [k \in 1..Len(sortedEvents) |->
                                          [key |-> Num(sortedEvents[k].percentage),
                                           func |-> TRUE]]]]
    /\ constructed = "ok"

Init == EmitterInit /\ TimelineInit(1, {0}) /\ HookIdle /\ MachineIdle /\ DamageIdle

EmitterNext ==
    \/ \E e \in scope.events, once \in BOOLEAN, priority \in Priorities :
          On(e, once, priority)
    \/ \E id \in 0..(scope.subs - 1) : Unsubscribe(id)
    \/ \E e \in scope.events : Off(e)
    \/ RemoveAllListeners
    \/ \E id \in 0..(scope.subs - 1) : Pause(id)
    \/ \E id \in 0..(scope.subs - 1) : Resume(id)
    \/ \E depth \in Depths : SetMaxEmissionDepth(depth)
    \/ \E e \in scope.events, async \in BOOLEAN : Emit(e, async)
    \/ \E outcome \in {"fulfilled", "rejected", "pending"} : HandlerEnd(outcome)
    \/ \E p \in 1..MaxCalls, k \in 1..scope.subs, outcome \in {"fulfilled", "rejected"} :
          Settle(p, k, outcome)
    \/ \E p \in 1..MaxCalls : Resolve(p)

Spec == Init /\ [][EmitterNext]_vars

\* Timelines of every duration up to MaxDuration over every record of
\* fraction keys, and the timeline of the class documentation: 20 ticks with
\* events at 0.0, 0.5 and 1.0
DocFractions == {0, FractionSteps \div 2, FractionSteps}

TimelineInits ==
    /\ EmitterInit
    /\ HookIdle
    /\ MachineIdle
    /\ DamageIdle
    /\ scope.async /\ scope.events = Events
    /\ \/ \E d \in 1..MaxDuration, keys \in (SUBSET Fractions) \ {{}} :
             TimelineInit(d, keys)
       \/ TimelineInit(DocDuration, DocFractions)

TimelineNext ==
    \/ \E tick \in (-1)..(duration + 1), bad \in 0..Len(sortedEvents) : Process(tick, bad)
    \/ Reset

TimelineSpec == TimelineInits /\ [][TimelineNext]_vars

\* The arguments the constructor is called with: durations from -1 to
\* MaxCtorDuration and a non-finite one; null, or up to MaxEntries entries
\* in any order whose keys read as -1/FractionSteps .. (FractionSteps + 1) /
\* FractionSteps or as no number, and whose values are functions or not.
\* Two entries with the same fraction stand for two spellings of it.
CtorNumbers(low, high) == {Num(n) : n \in low..high} \cup {NotFinite}

CtorEntries == [key : CtorNumbers(-1, FractionSteps + 1), func : BOOLEAN]

CtorRecords ==
    {[null |-> TRUE, entries |-> <<>>]}
        \cup {[null |-> FALSE, entries |-> e] :
                 e \in UNION {[1..n -> CtorEntries] : n \in 0..MaxEntries}}

ConstructorInit ==
    /\ EmitterInit
    /\ HookIdle
    /\ MachineIdle
    /\ DamageIdle
    /\ scope.async /\ scope.events = Events
    /\ constructed = "pending"
    /\ args \in [duration : CtorNumbers(-1, MaxCtorDuration), record : CtorRecords]
    /\ duration = 0
    /\ sortedEvents = <<>>
    /\ fireCount = <<>>
    /\ lastProcessedTick = -1
    /\ lastFired = {}
    /\ prevTick = -1
    /\ monotone = TRUE
    /\ nProcess = 0
    /\ firedOrder = <<>>
    /\ lastCall = [op |-> "none", tick |-> -1, threw |-> FALSE, thrower |-> 0]
    /\ completedBefore = -1

ConstructorNext ==
    \/ NewTimeline
    \/ \E tick \in (-1)..(duration + 1), bad \in 0..Len(sortedEvents) : Process(tick, bad)
    \/ Reset

ConstructorSpec == ConstructorInit /\ [][ConstructorNext]_vars

\* The item-hook dispatcher is exercised with one player who may hold
\* nothing or an item of either type in either slot and be in any status, or
\* with two players who hold nothing or an item of type "a" in slot 0 and
\* are "ok" or "invalid".  cleanupCounter starts at 0 or, with one player,
\* two ticks short of the periodic cleanup as after CLEANUP_INTERVAL - 2
\* ticks of a player who holds nothing.
HookScopes ==
    {[players |-> <<"p1">>, held |-> {NoItem} \cup ItemTypes, slots |-> Slots,
      statuses |-> {"nocomp", "dead", "invalid", "gone"},
      outcomes |-> {"none", "factory", "onTick", "onDelete", "all"},
      counters |-> {0, CLEANUP_INTERVAL - 2}, factories |-> {"f"},
      ticks |-> MaxWorldTicks],
     [players |-> <<"p1", "p2">>, held |-> {NoItem, "a"}, slots |-> {0},
      statuses |-> {"invalid"},
      outcomes |-> {"none", "factory", "onTick", "onDelete"},
      counters |-> {0}, factories |-> {"f"}, ticks |-> MaxWorldTicks]}

PlayerWorlds ==
    {[status |-> "ok", held |-> h, slot |-> k] : h \in hookScope.held, k \in hookScope.slots}
        \cup {[status |-> st, held |-> NoItem, slot |-> 0] : st \in hookScope.statuses}

Worlds == [Range(hookScope.players) -> PlayerWorlds]

Outcomes == [Range(hookScope.players) -> hookScope.outcomes]

HookInit ==
    /\ EmitterInit
    /\ scope.async /\ scope.events = Events
    /\ TimelineInit(1, {0})
    /\ \E sc \in HookScopes : \E counter \in sc.counters : HookStart(sc, counter)
    /\ MachineIdle
    /\ DamageIdle

HookNext ==
    \/ \E w \in Worlds, outcomes \in Outcomes : WorldTick(w, outcomes)
    \/ \E itemType \in hookScope.held \ {NoItem}, factory \in hookScope.factories :
          Register(itemType, factory)
    \/ \E itemType \in hookScope.held \ {NoItem} : Unregister(itemType)
    \/ UnregisterAll

HookSpec == HookInit /\ [][HookNext]_vars

\* The use events are exercised with one player who holds nothing or an item
\* of type "a" in either slot, over MaxUseTicks ticks and with two factories
\* to register for either item type; the events carry either item type or
\* none and either slot.
UseScope ==
    [players |-> <<"p1">>, held |-> {NoItem, "a"}, slots |-> Slots, statuses |-> {"dead"},
     outcomes |-> {"none", "onTick"}, counters |-> {0}, factories |-> {"f", "g"},
     ticks |-> MaxUseTicks]

UseOutcomes == {"none", "false", "canUse", "onStartUse", "onStopUse"}

UseInit ==
    /\ EmitterInit
    /\ scope.async /\ scope.events = Events
    /\ TimelineInit(1, {0})
    /\ HookStart(UseScope, 0)
    /\ MachineIdle
    /\ DamageIdle

UseNext ==
    \/ \E w \in Worlds, outcomes \in Outcomes : WorldTick(w, outcomes)
    \/ \E itemType \in ItemTypes, factory \in hookScope.factories :
          Register(itemType, factory)
    \/ \E itemType \in ItemTypes : Unregister(itemType)
    \/ UnregisterAll
    \/ \E player \in Range(hookScope.players), itemStack \in {NoItem} \cup ItemTypes,
          selectedSlotIndex \in Slots, outcome \in UseOutcomes :
          ItemStartUse(player, itemStack, selectedSlotIndex, outcome)
    \/ \E player \in Range(hookScope.players), itemStack \in {NoItem} \cup ItemTypes,
          selectedSlotIndex \in Slots, outcome \in UseOutcomes :
          ItemStopUse(player, itemStack, selectedSlotIndex, outcome)

UseSpec == UseInit /\ [][UseNext]_vars

\* The state machine: a behavior starting in any state object, transitions
\* to any state object, and every callback, each returning or throwing.
MachineInit ==
    /\ EmitterInit
    /\ scope.async /\ scope.events = Events
    /\ TimelineInit(1, {0})
    /\ HookIdle
    /\ \E initial \in States : MachineStart(initial)
    /\ DamageIdle

MachineNext ==
    \/ \E newState \in States, outcome \in {"none", "onExit", "onEnter"} :
          ChangeState(newState, outcome)
    \/ \E callback \in StateCallbacks, threw \in BOOLEAN : Callback(callback, threw)

MachineSpec == MachineInit /\ [][MachineNext]_vars


\* The damage helper: an entity without the resistance effect or with the
\* effect at any amplifier up to MaxAmplifier, hit with any raw damage
DamageInit ==
    /\ EmitterInit
    /\ scope.async /\ scope.events = Events
    /\ TimelineInit(1, {0})
    /\ HookIdle
    /\ MachineIdle
    /\ \E effect \in {NoEffect} \cup 0..MaxAmplifier, raw \in -1..MaxRawDamage :
          DamageStart(effect, raw)

DamageNext == CalculateFinalDamage

DamageSpec == DamageInit /\ [][DamageNext]_vars

\* The whole life of a binding: one player who holds nothing or an item of
\* either type in either slot, dies or is missing from the world, over
\* MaxLifeTicks ticks, with registry calls, use events, hit, break and hurt
\* events, playerLeave and shutdown; onTick and onDelete return or throw.
LifeScope ==
    [players |-> <<"p1">>, held |-> {NoItem} \cup ItemTypes, slots |-> Slots,
     statuses |-> {"dead", "gone"}, outcomes |-> {"none", "onTick", "onDelete"},
     counters |-> {0, CLEANUP_INTERVAL - 2}, factories |-> {"f"}, ticks |-> MaxLifeTicks]

LifeInit ==
    /\ EmitterInit
    /\ scope.async /\ scope.events = Events
    /\ TimelineInit(1, {0})
    /\ \E counter \in LifeScope.counters : HookStart(LifeScope, counter)
    /\ MachineIdle
    /\ DamageIdle

LifeNext ==
    \/ \E w \in Worlds, outcomes \in Outcomes : WorldTick(w, outcomes)
    \/ \E itemType \in ItemTypes, factory \in hookScope.factories :
          Register(itemType, factory)
    \/ \E itemType \in ItemTypes : Unregister(itemType)
    \/ UnregisterAll
    \/ \E player \in Range(hookScope.players), itemStack \in ItemTypes,
          selectedSlotIndex \in Slots, outcome \in {"none", "onStartUse"} :
          ItemStartUse(player, itemStack, selectedSlotIndex, outcome)
    \/ \E player \in Range(hookScope.players), itemStack \in {NoItem} \cup ItemTypes,
          selectedSlotIndex \in Slots, outcome \in {"none", "onStopUse"} :
          ItemStopUse(player, itemStack, selectedSlotIndex, outcome)
    \/ \E player \in Range(hookScope.players), callback \in EntityCallbacks,
          outcome \in {"none"} \cup EntityCallbacks :
          EntityEvent(player, callback, outcome)
    \/ \E player \in Range(hookScope.players), outcome \in {"none", "onDelete"} :
          PlayerLeave(player, outcome)
    \/ \E outcomes \in Outcomes : Shutdown(outcomes)

LifeSpec == LifeInit /\ [][LifeNext]_vars

\* ------------------------------------------------------ EventEmitter claims
AllIds == UNION {IdSet(subscribers[e]) : e \in Events}

\* Non-increasing priority, and registration (id) order among equal priorities
InDispatchOrder(s) ==
    \A a, b \in 1..Len(s) :
        a < b => \/ s[a].priority > s[b].priority
                 \/ s[a].priority = s[b].priority /\ s[a].id < s[b].id

\* Every dispatch there is to see: running, awaiting its promises, just returned
Snapshots ==
    {callStack[k].snap : k \in 1..Len(callStack)}
        \cup {pending[k].snap : k \in 1..Len(pending)}
        \cup (IF ret.op # "none" /\ ret.status = "done" THEN {ret.snap} ELSE {})

\* C1: after any sequence of on/once/unsubscribe/pause/resume calls, every
\* dispatch of emit and emitAsync calls the active handlers of the event in
\* non-increasing priority order, equal priorities in registration order; the
\* handlers are called in the order of the snapshot, one after the other.
C1_DispatchInPriorityOrder ==
    /\ \A e \in Events : InDispatchOrder(subscribers[e])
    /\ \A s \in Snapshots : InDispatchOrder(s)
    /\ \A k \in 1..Len(callStack) :
          LET f == callStack[k]
          IN  /\ f.i \in 1..Len(f.snap)
              /\ Len(f.out) = f.i - 1

\* A dispatch is calling its third handler; the second one was placed by the
\* binary search, behind an older subscriber of the same priority and ahead
\* of an older one of lower priority.
C1_Witness ==
    \E k \in 1..Len(callStack) :
        LET f == callStack[k]
        IN  /\ Len(f.snap) = 3
            /\ f.i = 3
            /\ f.snap[1].priority = f.snap[2].priority
            /\ f.snap[2].priority > f.snap[3].priority
            /\ f.snap[2].id > f.snap[3].id

\* The once-subscribers that a dispatch still running holds in its snapshot
InRunningDispatch ==
    UNION {IdSet(callStack[k].snap) : k \in 1..Len(callStack)}

OnceIdsOf(snap) == {snap[k].id : k \in {j \in 1..Len(snap) : snap[j].once}}

\* C2: a once handler is called by the first dispatch that includes it and by
\* no other: it is never called twice, every once handler of a dispatch whose
\* pass has ended was called exactly once, and from the end of that pass on it
\* is in no subscriber list, whether it returned or threw.
C2_OnceFiresOnce ==
    /\ \A id \in 0..(idCounter - 1) : invoked[id + 1] <= 1
    /\ \A id \in 0..(idCounter - 1) :
          (invoked[id + 1] >= 1 /\ id \notin InRunningDispatch) => id \notin AllIds
    /\ \A k \in 1..Len(pending) :
          \A id \in OnceIdsOf(pending[k].snap) : invoked[id + 1] = 1
    /\ (ret.op # "none" /\ ret.status = "done") =>
          \A id \in OnceIdsOf(ret.snap) : invoked[id + 1] = 1

\* A later emit of the same event has dispatched to another handler, without
\* the once handler that a former dispatch had called and that threw.
C2_Witness ==
    /\ ret.op = "emit" /\ ret.status = "done"
    /\ Len(ret.snap) >= 1
    /\ \E id \in 0..(idCounter - 1) :
          /\ invoked[id + 1] = 1
          /\ handles[id + 1] = ret.ev
          /\ id \notin IdSet(ret.snap)

\* C3: an emit of E made from inside a handler that is being dispatched for E
\* calls no handler: no dispatch of E starts while one of E is running.
C3_NoNestedDispatchOfSameEvent ==
    \A a, b \in 1..Len(callStack) : a < b => callStack[a].ev # callStack[b].ev

Count(out, what) == Cardinality({k \in 1..Len(out) : out[k] = what})

\* C4: emitAsync over N handlers of which K failed resolves to N - K
\* successful values and K failures, reports K errors to the sink, and each
\* failure's handlerIndex is the position of its handler in the snapshot, the
\* failures and the successes each in snapshot order.
C4_AsyncResultCounts ==
    (ret.op = "emitAsync" /\ ret.status = "done") =>
        /\ Len(ret.out) = Len(ret.snap)
        /\ Len(ret.results) + Len(ret.failed) = Len(ret.snap)
        /\ Len(ret.failed) = Count(ret.out, "rejected")
        /\ ret.nerr = Count(ret.out, "rejected")
        /\ \A j \in 1..Len(ret.failed) :
              /\ ret.failed[j].handlerIndex \in 0..(Len(ret.snap) - 1)
              /\ ret.out[ret.failed[j].handlerIndex + 1] = "rejected"
        /\ \A j \in 1..(Len(ret.failed) - 1) :
              ret.failed[j].handlerIndex < ret.failed[j + 1].handlerIndex
        /\ \A j \in 1..Len(ret.results) :
              \E k \in 1..Len(ret.snap) :
                  /\ ret.snap[k].id = ret.results[j]
                  /\ ret.out[k] = "fulfilled"

\* An emitAsync resolved with a success at position 0 and a failure at 1.
C4_Witness ==
    /\ ret.op = "emitAsync" /\ ret.status = "done"
    /\ Len(ret.snap) >= 2
    /\ ret.out[1] = "fulfilled"
    /\ ret.out[2] = "rejected"

\* The ids of the handlers of snap whose outcome is what, in snapshot order
RECURSIVE IdsWith(_, _, _)
IdsWith(snap, out, what) ==
    IF out = <<>> THEN <<>>
    ELSE LET rest == IdsWith(snap, Pop(out), what)
         IN  IF out[Len(out)] = what THEN Append(rest, snap[Len(out)].id) ELSE rest

\* C5: emit calls every handler of the snapshot although some throw, calls
\* the error sink once per throwing handler, and returns exactly the values
\* of the handlers that did not throw, in dispatch order.
C5_SyncEmitSurvivesThrow ==
    /\ (ret.op = "emit" /\ ret.status = "done") =>
          /\ Len(ret.out) = Len(ret.snap)
          /\ ret.results = IdsWith(ret.snap, ret.out, "fulfilled")
          /\ Len(ret.results) = Len(ret.snap) - Count(ret.out, "rejected")
          /\ ret.nerr = Count(ret.out, "rejected")
    /\ \A k \in 1..Len(callStack) :
          LET f == callStack[k]
          IN  ~f.async => /\ f.results = IdsWith(f.snap, f.out, "fulfilled")
                          /\ f.nerr = Count(f.out, "rejected")

\* An emit returned the value of its second handler after the first threw.
C5_Witness ==
    /\ ret.op = "emit" /\ ret.status = "done"
    /\ Len(ret.snap) >= 2
    /\ ret.out[1] = "rejected"
    /\ ret.out[2] = "fulfilled"
    /\ Len(ret.results) = Len(ret.snap) - 1

\* The ids of the active subscribers of a list, in list order
RECURSIVE ActiveIds(_)
ActiveIds(list) ==
    IF list = <<>> THEN <<>>
    ELSE IF list[Len(list)].active
         THEN Append(ActiveIds(Pop(list)), list[Len(list)].id)
         ELSE ActiveIds(Pop(list))

Rejected(r) == r.op # "none" /\ r.status \in {"recursive", "depth"}

\* C6: the ceiling is 100 unless set, setMaxEmissionDepth(d) sets it to
\* max(1, d), and an emit or emitAsync of an event with subscribers made while
\* the emission stack holds that many entries calls no handler, returns an
\* empty result, reports one error, and leaves the emission stack and the
\* subscriber lists as they were.
C6_DepthCeiling ==
    /\ maxEmissionDepth = DefaultMaxEmissionDepth
    /\ [][/\ \A e \in scope.events, async \in BOOLEAN :
                (/\ subscribers[e] # <<>>
                 /\ Len(emissionStack) >= maxEmissionDepth
                 /\ Emit(e, async))
                => /\ Rejected(ret')
                   /\ ret'.results = <<>> /\ ret'.failed = <<>>
                   /\ ret'.nerr = 1
                   /\ UNCHANGED <<subscribers, emissionStack, isEmitting,
                                  callStack, pending, invoked>>
          /\ \A depth \in Depths :
                SetMaxEmissionDepth(depth)
                => maxEmissionDepth' = (IF depth >= 1 THEN depth ELSE 1)
          /\ maxEmissionDepth' >= 1]_vars

\* An emit of another event was turned down for the depth alone, with the
\* stack at the ceiling; the event keeps its once-subscriber, never called.
C6_Witness ==
    /\ ret.op # "none" /\ ret.status = "depth"
    /\ Len(emissionStack) = maxEmissionDepth
    /\ \E k \in 1..Len(subscribers[ret.ev]) :
          LET sub == subscribers[ret.ev][k]
          IN  sub.once /\ sub.active /\ invoked[sub.id + 1] = 0

\* What every step of unsubscribe, off, pause, resume and removeAllListeners
\* leaves alone, and what every emit that starts a dispatch changes
ManagementStep ==
    /\ ret' = NoRet
    /\ idCounter' = idCounter
    /\ maxEmissionDepth' = maxEmissionDepth
    /\ pending' = pending
    /\ callStack' = callStack

DispatchStep == ret'.op # "none" \/ Len(callStack') = Len(callStack) + 1

\* C7: a dispatch calls exactly the subscribers that are active when it
\* begins, in list order, so none that is paused then; pausing an active
\* subscription leaves listenerCount as it is and lowers activeListenerCount
\* by one; pause and resume leave every subscriber at its place in its list,
\* and a resumed subscription is active again.
C7_PausedNotDispatched ==
    [][/\ DispatchStep =>
             \A e \in scope.events, async \in BOOLEAN :
                (subscribers[e] # <<>> /\ ~Rejected(ret') /\ Emit(e, async))
                => LET ids == ActiveIds(subscribers[e])
                   IN  IF ids = <<>>
                       THEN callStack' = callStack /\ invoked' = invoked
                       ELSE /\ Len(callStack') = Len(callStack) + 1
                            /\ Ids(callStack'[Len(callStack')].snap) = ids
                            /\ callStack'[Len(callStack')].i = 1
       /\ ManagementStep =>
             \A id \in 0..(idCounter - 1) :
                LET e == handles[id + 1]
                    at == {k \in 1..Len(subscribers[e]) : subscribers[e][k].id = id}
                    paused == Pause(id)
                    resumed == Resume(id)
                IN  /\ (paused /\ \E k \in at : subscribers[e][k].active)
                       => /\ listenerCount(e)' = listenerCount(e)
                          /\ activeListenerCount(e)' = activeListenerCount(e) - 1
                    /\ (subscribers' # subscribers /\ (paused \/ resumed))
                       => /\ \A o \in Events : Ids(subscribers'[o]) = Ids(subscribers[o])
                          /\ \A o \in Events : \A k \in 1..Len(subscribers[o]) :
                                subscribers[o][k].id # id
                                => subscribers'[o][k] = subscribers[o][k]
                    /\ resumed => \A k \in at : subscribers'[e][k].active]_vars

\* A dispatch is calling its first handler while an older subscriber of the
\* event, of higher priority, is paused and not part of the dispatch.
C7_Witness ==
    /\ callStack # <<>>
    /\ LET f == callStack[Len(callStack)]
       IN  /\ f.i = 1
           /\ \E k \in 1..Len(subscribers[f.ev]) :
                 LET sub == subscribers[f.ev][k]
                 IN  /\ ~sub.active
                     /\ sub.id \notin IdSet(f.snap)
                     /\ sub.id < f.snap[1].id
                     /\ sub.priority > f.snap[1].priority

\* C8: unsubscribe() of a handle removes that subscription and nothing else,
\* the others keeping their order; off(E) removes every subscription of E and
\* none of another event; removeAllListeners() leaves none.
C8_RemovalFrame ==
    [][ManagementStep =>
         /\ \A id \in 0..(idCounter - 1) :
               Unsubscribe(id)
               => \A e \in Events :
                     subscribers'[e] = SelectSeq(subscribers[e], LAMBDA sub : sub.id # id)
         /\ \A e \in scope.events :
               Off(e) => /\ subscribers'[e] = <<>>
                         /\ \A o \in Events \ {e} : subscribers'[o] = subscribers[o]
         /\ RemoveAllListeners => \A e \in Events : subscribers'[e] = <<>>]_vars

\* Of three subscriptions of A with no once among them, the middle one is
\* gone and the two others are left in their order.
C8_Witness ==
    /\ handles = <<"A", "A", "A">>
    /\ Ids(subscribers["A"]) = <<0, 2>>
    /\ \A k \in 1..2 : ~subscribers["A"][k].once
    /\ subscribers["A"][1].priority = subscribers["A"][2].priority
    /\ \A id \in 1..3 : invoked[id] = 0

\* C9: while an emitAsync awaits its handlers' promises, no once-subscriber of
\* its snapshot is in a subscriber list any more.
C9_OnceGoneBeforeAwait ==
    \A k \in 1..Len(pending) : OnceIdsOf(pending[k].snap) \cap AllIds = {}

\* An emitAsync awaits the pending promise of a once handler, and the event
\* still has another subscriber.
C9_Witness ==
    \E k \in 1..Len(pending) :
        /\ \E j \in 1..Len(pending[k].snap) :
              pending[k].snap[j].once /\ pending[k].out[j] = "pending"
        /\ subscribers[pending[k].ev] # <<>>

\* ----------------------------------------------------------- Timeline claims
Due(from, to) ==
    {k \in 1..Len(sortedEvents) : from < sortedEvents[k].tick /\ sortedEvents[k].tick <= to}

\* C10: as long as the clamped ticks of the process calls never decrease, no
\* reset is made and no callback throws, no event has fired twice, the events
\* that have fired are exactly those whose tick the last call has reached, and
\* a call that follows one at t1 with t2 >= t1 fires exactly the events with
\* t1 < tick <= t2, so a repeated tick fires nothing.
C10_MonotoneFiresOnce ==
    monotone =>
        /\ \A k \in 1..Len(sortedEvents) :
              /\ fireCount[k] <= 1
              /\ fireCount[k] = 1 <=> sortedEvents[k].tick <= lastProcessedTick
              /\ fireCount[k] = 1 <=> sortedEvents[k].executed
        /\ prevTick <= lastProcessedTick
        /\ lastFired = Due(prevTick, lastProcessedTick)

\* The documented timeline after process(17) and then process(20): the second
\* call fired the third event alone, and all three have fired once.
C10_Witness ==
    /\ monotone
    /\ duration = DocDuration
    /\ nProcess = 2
    /\ prevTick = 17
    /\ lastProcessedTick = 20
    /\ lastFired = {3}
    /\ \A k \in 1..3 : fireCount[k] = 1

UpTo(tick) == {k \in 1..Len(sortedEvents) : sortedEvents[k].tick <= tick}

Executed == {k \in 1..Len(sortedEvents) : sortedEvents[k].executed}

\* C11: a process call whose clamped tick is lower than lastProcessedTick
\* resets the timeline first: when no callback throws it fires every event
\* whose tick is <= its tick, fired before or not, and leaves exactly those
\* executed; when a callback throws, lastProcessedTick stays at -1 and only
\* the events the call fired are executed.  After reset() lastProcessedTick
\* is -1 and no event is executed.
C11_BackwardResets ==
    /\ (lastCall.op = "process" /\ lastCall.tick < prevTick) =>
          IF lastCall.threw
          THEN /\ lastProcessedTick = -1
               /\ Executed = lastFired
          ELSE /\ lastProcessedTick = lastCall.tick
               /\ lastFired = UpTo(lastCall.tick)
               /\ Executed = UpTo(lastCall.tick)
    /\ lastCall.op = "reset" => (lastProcessedTick = -1 /\ Executed = {})

\* A backward call has fired an event for the second time and has left an
\* event that had fired before, and lies after its tick, unexecuted.
C11_Witness ==
    /\ lastCall.op = "process" /\ ~lastCall.threw
    /\ lastCall.tick < prevTick
    /\ \E k \in lastFired : fireCount[k] = 2
    /\ \E j \in 1..Len(sortedEvents) : fireCount[j] = 1 /\ ~sortedEvents[j].executed

\* C11 as it is worded: a call whose clamped tick is lower than the tick of
\* the last process call that completed fires every event up to its tick.
C11_BelowLastCompletedCall ==
    (lastCall.op = "process" /\ ~lastCall.threw /\ lastCall.tick < completedBefore)
    => lastFired = UpTo(lastCall.tick)

\* What C12 names as the inputs the constructor turns down
Rejects(a) ==
    LET entries == a.record.entries
    IN  \/ ~a.duration.finite
        \/ a.duration.value <= 0
        \/ a.record.null
        \/ entries = <<>>
        \/ \E k \in 1..Len(entries) :
              \/ ~entries[k].key.finite
              \/ entries[k].key.value < 0
              \/ entries[k].key.value > FractionSteps
              \/ ~entries[k].func
        \/ \E j, k \in 1..Len(entries) : j # k /\ entries[j].key = entries[k].key

\* C12: the constructor throws a TimelineError, and leaves no timeline,
\* exactly when the duration is not a positive finite number, the mapping is
\* null or empty, a key is no number in [0, 1], two keys denote the same
\* fraction or a value is no function; otherwise the timeline has one
\* unexecuted event per entry, with tick = floor(fraction * duration), and
\* nothing has been processed.
C12_ConstructorValidates ==
    constructed # "pending" =>
        /\ constructed = "TimelineError" <=> Rejects(args)
        /\ constructed = "TimelineError" => (sortedEvents = <<>> /\ nProcess = 0)
        /\ constructed = "ok" =>
              /\ duration = args.duration.value
              /\ Len(sortedEvents) = Len(args.record.entries)
              /\ \A k \in 1..Len(args.record.entries) :
                    \E j \in 1..Len(sortedEvents) :
                        /\ sortedEvents[j].percentage = args.record.entries[k].key.value
                        /\ sortedEvents[j].tick * FractionSteps
                              <= sortedEvents[j].percentage * duration
                        /\ sortedEvents[j].percentage * duration
                              < (sortedEvents[j].tick + 1) * FractionSteps
              /\ nProcess = 0 =>
                    (lastProcessedTick = -1 /\ \A j \in 1..Len(sortedEvents) :
                                                  ~sortedEvents[j].executed)

\* A timeline of three events built from keys given out of order, two of
\* them at the same tick and one whose fraction times the duration is no
\* whole number.
C12_Witness ==
    /\ constructed = "ok"
    /\ nProcess = 0
    /\ Len(sortedEvents) = 3
    /\ sortedEvents[1].tick = sortedEvents[2].tick
    /\ \E j \in 1..3 :
          sortedEvents[j].tick * FractionSteps < sortedEvents[j].percentage * duration
    /\ args.record.entries[1].key.value > args.record.entries[2].key.value

\* C13: a process call in which a callback throws ends with a TimelineError
\* at that callback: the event that threw is not marked executed, nothing
\* after it is fired, lastProcessedTick is not advanced, and the events the
\* call fired before it are marked executed; no call that does not move
\* backward fires an event that is marked executed, and it leaves it marked.
C13_ThrowAborts ==
    /\ [](lastCall.threw =>
             /\ lastCall.op = "process"
             /\ lastCall.thrower \in 1..Len(sortedEvents)
             /\ ~sortedEvents[lastCall.thrower].executed
             /\ \A k \in lastFired : k < lastCall.thrower /\ sortedEvents[k].executed
             /\ lastProcessedTick = (IF lastCall.tick < prevTick THEN -1 ELSE prevTick))
    /\ [][(/\ nProcess' = nProcess + 1
           /\ lastCall'.op = "process"
           /\ lastCall'.tick >= lastProcessedTick)
          => \A k \in Executed : k \notin lastFired' /\ sortedEvents'[k].executed]_vars

\* A call fired an event and was aborted by the next one, while a third
\* event was due in the same call.
C13_Witness ==
    /\ lastCall.threw
    /\ lastFired # {}
    /\ lastCall.thrower < Len(sortedEvents)
    /\ sortedEvents[lastCall.thrower + 1].tick <= lastCall.tick
    /\ ~sortedEvents[lastCall.thrower + 1].executed

\* C14: whatever the order of the keys given to the constructor, the events
\* are held in ascending order of tick, equal ticks in ascending order of
\* fraction; every process call runs its callbacks in that order, and the
\* events executed since the last reset are the first ones of that order,
\* the ones the most recent call fired being the last of these, so that
\* successive calls continue the order.
C14_FiringOrder ==
    constructed = "ok" =>
        /\ \A a, b \in 1..Len(sortedEvents) :
              a < b => \/ sortedEvents[a].tick < sortedEvents[b].tick
                       \/ /\ sortedEvents[a].tick = sortedEvents[b].tick
                          /\ sortedEvents[a].percentage < sortedEvents[b].percentage
        /\ \A i \in 1..(Len(firedOrder) - 1) : firedOrder[i] < firedOrder[i + 1]
        /\ \A k \in Executed : \A j \in 1..k : j \in Executed
        /\ firedOrder # <<>> =>
              /\ firedOrder[Len(firedOrder)] \in Executed
              /\ \A k \in Executed : k <= firedOrder[Len(firedOrder)]

\* Keys given in descending order; a call fired the two events that share a
\* tick, lower fraction first, after an earlier call had fired the first event.
C14_Witness ==
    /\ constructed = "ok"
    /\ monotone
    /\ Len(args.record.entries) = 3
    /\ \A k \in 1..2 : args.record.entries[k].key.value
                          > args.record.entries[k + 1].key.value
    /\ firedOrder = <<2, 3>>
    /\ sortedEvents[2].tick = sortedEvents[3].tick
    /\ sortedEvents[1].executed

\* ----------------------------------------------------------- item-hook claims
HookPlayers == Range(hookScope.players)

\* The step is a world tick.
TickStep == nTicks' = nTicks + 1

CallsOf(log, callback) == SelectSeq(log, LAMBDA c : c.callback = callback)

\* Player p had a binding before the tick and the tick finds p valid, with
\* its components, alive and holding another type or nothing, or the same
\* type in another slot.
Switched(p) ==
    /\ hookedItemWrappersByPlayer[p].exists
    /\ world'[p].status = "ok"
    /\ \/ hookedItemWrappersByPlayer[p].itemType # world'[p].held
       \/ hookedItemWrappersByPlayer[p].initialSlotIndex # world'[p].slot

\* What the tick did for p is what a switch asks for: onDelete of the old
\* behavior is the first callback and is called once; then the factory of
\* the held type is called once if the type is registered, and its behavior
\* is p's binding unless the factory threw; with no factory for the type or
\* nothing held no factory is called and p has no binding.
Rebound(p) ==
    LET old == hookedItemWrappersByPlayer[p]
        new == hookedItemWrappersByPlayer'[p]
        now == world'[p]
        log == calls'[p]
        made == CallsOf(log, "factory")
    IN /\ Len(CallsOf(log, "onDelete")) = 1
       /\ log[1].callback = "onDelete"
       /\ log[1].instance = old.instance
       /\ IF now.held \in DOMAIN factoriesByItemType
          THEN /\ Len(made) = 1
               /\ IF made[1].threw
                  THEN ~new.exists
                  ELSE /\ new.exists
                       /\ new.instance = made[1].instance
                       /\ new.instance # old.instance
                       /\ new.itemType = now.held
                       /\ new.initialSlotIndex = now.slot
          ELSE /\ made = <<>>
               /\ ~new.exists

\* C15: when a player who has a binding is found by the next tick valid,
\* alive and holding another item type, nothing, or the same type in another
\* slot, that tick calls the old behavior's onDelete once and removes the old
\* binding before any factory is called, then creates one new binding if a
\* factory is registered for the held type and none otherwise.
C15_SwitchRebinds ==
    [][TickStep => \A p \in HookPlayers : Switched(p) => Rebound(p)]_vars

\* What the step did with the tick counter of p's behaviors: a factory call
\* that returned is followed at once by the onTick of the behavior it made,
\* which observes 0; every onTick call observes one less than the number of
\* onTick calls made to that behavior, this one included; a binding that
\* outlasts the step has its counter one higher if its onTick was called and
\* returned, and unchanged otherwise.
CountsTicks(p) ==
    LET old == hookedItemWrappersByPlayer[p]
        new == hookedItemWrappersByPlayer'[p]
        log == calls'[p]
        returned == {i \in 1..Len(log) : log[i].callback = "onTick" /\ ~log[i].threw
                                           /\ log[i].instance = old.instance}
    IN /\ \A i \in 1..Len(log) :
             /\ (log[i].callback = "factory" /\ ~log[i].threw) =>
                    /\ i < Len(log)
                    /\ log[i + 1].callback = "onTick"
                    /\ log[i + 1].instance = log[i].instance
                    /\ log[i + 1].currentTick = 0
             /\ log[i].callback = "onTick" =>
                    /\ log[i].currentTick = onTickCount'[p] - 1
                    /\ new.exists /\ new.instance = log[i].instance
                    /\ new.currentTick = log[i].currentTick + (IF log[i].threw THEN 0 ELSE 1)
       /\ (old.exists /\ new.exists /\ new.instance = old.instance) =>
             new.currentTick = old.currentTick + Cardinality(returned)

\* C16: onTick of a binding is first called in the tick that creates the
\* binding and observes currentTick = 0 there; its k-th call observes
\* currentTick = k - 1; the counter goes up by one when onTick returns and
\* at no other time.
C16_TickCounter ==
    [][IF TickStep
       THEN \A p \in HookPlayers : CountsTicks(p)
       ELSE hookedItemWrappersByPlayer' = hookedItemWrappersByPlayer]_vars

\* A behavior's third onTick call has observed 2 and returned.
C16_Witness ==
    \E p \in HookPlayers :
        /\ onTickCount[p] = 3
        /\ calls[p] # <<>>
        /\ calls[p][Len(calls[p])].callback = "onTick"
        /\ calls[p][Len(calls[p])].currentTick = 2
        /\ hookedItemWrappersByPlayer[p].exists
        /\ hookedItemWrappersByPlayer[p].currentTick = 3

\* An onTick call of the step threw for p: the tick callback did not throw
\* and the behavior is still p's binding, flagged for deletion.
FlaggedByThrow(p) ==
    \A i \in 1..Len(calls'[p]) :
        (calls'[p][i].callback = "onTick" /\ calls'[p][i].threw) =>
            /\ ~hookThrew'
            /\ hookedItemWrappersByPlayer'[p].exists
            /\ hookedItemWrappersByPlayer'[p].instance = calls'[p][i].instance
            /\ hookedItemWrappersByPlayer'[p].deleteOnNextTick

\* p's binding was flagged by an onTick that threw in an earlier tick and p
\* is among the players of this tick: onDelete of the behavior is called
\* once, its onTick is not called and it is no longer p's binding.
TornDownAfterThrow(p) ==
    LET old == hookedItemWrappersByPlayer[p]
        new == hookedItemWrappersByPlayer'[p]
        torn == SelectSeq(calls'[p], LAMBDA c : c.instance = old.instance)
    IN (old.exists /\ old.deleteOnNextTick /\ world'[p].status # "gone") =>
          /\ Len(torn) = 1
          /\ torn[1].callback = "onDelete"
          /\ new.exists => new.instance # old.instance

\* C17: when onTick of a binding throws in a tick, the exception does not
\* leave the dispatcher and the binding's deleteOnNextTick flag is set; the
\* next tick tears the binding down, calling onDelete once and not onTick.
C17_ThrowingTickDeletesNextTick ==
    [][TickStep => \A p \in HookPlayers : FlaggedByThrow(p) /\ TornDownAfterThrow(p)]_vars

\* The tick of this step, had only q's callbacks thrown, as outcome says
Alone(q, outcome) ==
    TickCallback(Running, factoriesByItemType, world',
                 [p \in HookPlayers |-> IF p = q THEN outcome ELSE "none"],
                 hookScope.players)

SameFor(q, ref) ==
    /\ hookedItemWrappersByPlayer'[q] = ref.wrappers[q]
    /\ calls'[q] = ref.calls[q]

NoneThrew(log) == \A i \in 1..Len(log) : ~log[i].threw

\* C18: in every world tick the tick callback does not throw, and what the
\* tick does to a player (the callbacks called, in order, and the binding
\* left) is what it would have done had no callback of any other player
\* thrown.
C18_PlayersIsolated ==
    [][TickStep =>
          /\ ~hookThrew'
          /\ \E ref \in {Alone(hookScope.players[1], "none")} :
                \A q \in HookPlayers :
                    IF NoneThrew(calls'[q])
                    THEN SameFor(q, ref)
                    ELSE \E outcome \in hookScope.outcomes : SameFor(q, Alone(q, outcome))]_vars

\* A callback of the first player threw in a tick in which the second
\* player, later in the loop, had a behavior created and ticked.
C18_Witness ==
    /\ Len(hookScope.players) = 2
    /\ \E i \in 1..Len(calls[hookScope.players[1]]) :
          /\ calls[hookScope.players[1]][i].threw
          /\ calls[hookScope.players[1]][i].callback = "onDelete"
    /\ Len(calls[hookScope.players[2]]) = 2
    /\ NoneThrew(calls[hookScope.players[2]])
    /\ calls[hookScope.players[2]][2].callback = "onTick"
    /\ hookedItemWrappersByPlayer[hookScope.players[2]].exists

\* The tick finds p, who has a binding, valid, with its components and
\* alive, and p does not hold the tracked item in the tracked slot, or the
\* registry has no factory for the tracked type, or the binding is flagged.
MustTearDown(p) ==
    LET old == hookedItemWrappersByPlayer[p]
        now == world'[p]
    IN /\ old.exists
       /\ now.status = "ok"
       /\ \/ old.itemType # now.held
          \/ old.initialSlotIndex # now.slot
          \/ old.itemType \notin DOMAIN factoriesByItemType
          \/ old.deleteOnNextTick

\* The tick called onDelete of the behavior p was bound to, once, and the
\* behavior is no longer p's binding.
TornDown(p) ==
    LET old == hookedItemWrappersByPlayer[p]
        new == hookedItemWrappersByPlayer'[p]
        deleted == SelectSeq(calls'[p], LAMBDA c : c.callback = "onDelete"
                                                   /\ c.instance = old.instance)
    IN /\ Len(deleted) = 1
       /\ new.exists => new.instance # old.instance

\* C19: a tick tears an existing binding down if the player does not hold
\* the same tracked item, or the registry no longer has a factory for the
\* held item's type, or deleteOnNextTick is set.
C19_TeardownConditions ==
    [][TickStep => \A p \in HookPlayers : MustTearDown(p) => TornDown(p)]_vars

\* After the step p, if listed by getPlayers() and bound, is bound to the
\* type of the item in its main hand and to its selected slot.
BindingMatches(p) ==
    (world'[p].status # "gone" /\ hookedItemWrappersByPlayer'[p].exists) =>
        /\ hookedItemWrappersByPlayer'[p].itemType = world'[p].held
        /\ hookedItemWrappersByPlayer'[p].initialSlotIndex = world'[p].slot

\* C20: at the end of every world tick the binding of every connected
\* player records the type of the item the player holds and the player's
\* selected slot, whatever item switches, slot changes and register,
\* unregister and unregisterAll calls came before the tick.
C20_BindingMatchesHeldItem ==
    [][TickStep => \A p \in HookPlayers : BindingMatches(p)]_vars

\* ------------------------------------------------------ use-event claims
HasCall(log, callback) == \E i \in 1..Len(log) : log[i].callback = callback

\* The step called onStartUse for p only after canUse returned true, on a
\* binding of the event's item type and slot that was not in use; a canUse
\* that returned false is the only call and leaves the binding as it was.
StartRouted(p, itemStack, selectedSlotIndex) ==
    LET old == hookedItemWrappersByPlayer[p]
        new == hookedItemWrappersByPlayer'[p]
        log == calls'[p]
    IN /\ HasCall(log, "onStartUse") =>
             /\ old.exists
             /\ old.itemType = itemStack
             /\ old.initialSlotIndex = selectedSlotIndex
             /\ ~old.isUsing
             /\ Len(log) = 2
             /\ log[1].callback = "canUse" /\ log[1].result = "true"
             /\ log[2].callback = "onStartUse" /\ log[2].instance = old.instance
       /\ (log # <<>> /\ log[1].callback = "canUse" /\ log[1].result = "false") =>
             /\ Len(log) = 1
             /\ new = old

\* The step called onStopUse for p only on a binding in use, which is not
\* in use afterwards.
StopRouted(p) ==
    HasCall(calls'[p], "onStopUse") =>
        /\ hookedItemWrappersByPlayer[p].exists
        /\ hookedItemWrappersByPlayer[p].isUsing
        /\ Len(calls'[p]) = 1
        /\ calls'[p][1].instance = hookedItemWrappersByPlayer[p].instance
        /\ ~hookedItemWrappersByPlayer'[p].isUsing

\* The latest onStartUse or onStopUse call made to p's binding before the step
UsedBefore(p) ==
    IF hookedItemWrappersByPlayer[p].exists
       /\ lastUse[p].instance = hookedItemWrappersByPlayer[p].instance
    THEN lastUse[p]
    ELSE NoUse

\* No tick or registry change was made and a use callback was called for p.
UseCalls(p) ==
    /\ nTicks' = nTicks
    /\ factoriesByItemType' = factoriesByItemType
    /\ calls'[p] # <<>>
    /\ calls'[p][1].callback \in {"canUse", "onStopUse"}

\* The step is a use event of player p in which a callback was called.
UseStep(p) ==
    /\ UseCalls(p)
    /\ \E itemStack \in {NoItem} \cup ItemTypes, selectedSlotIndex \in Slots,
          outcome \in UseOutcomes :
           \/ ItemStartUse(p, itemStack, selectedSlotIndex, outcome)
           \/ ItemStopUse(p, itemStack, selectedSlotIndex, outcome)

UseRouted ==
    \A p \in HookPlayers : UseCalls(p) =>
        \A itemStack \in {NoItem} \cup ItemTypes, selectedSlotIndex \in Slots,
           outcome \in UseOutcomes :
            /\ ItemStartUse(p, itemStack, selectedSlotIndex, outcome) =>
                  StartRouted(p, itemStack, selectedSlotIndex)
            /\ ItemStopUse(p, itemStack, selectedSlotIndex, outcome) => StopRouted(p)

\* C21 (amended): onStartUse is dispatched only for an event of the
\* binding's item type and slot, with isUsing false and after canUse returned
\* true, and leaves isUsing true when it returns; a canUse that returns false
\* changes nothing; onStopUse is dispatched only with isUsing true and leaves
\* it false; on one binding the onStartUse calls that returned and the
\* onStopUse calls alternate, starting with onStartUse.
C21_UseRouting ==
    [][/\ UseRouted
       /\ \A p \in HookPlayers : UseStep(p) =>
             /\ HasCall(calls'[p], "onStartUse") =>
                   /\ ~(UsedBefore(p).callback = "onStartUse" /\ ~UsedBefore(p).threw)
                   /\ ~calls'[p][2].threw => hookedItemWrappersByPlayer'[p].isUsing
             /\ HasCall(calls'[p], "onStopUse") =>
                   UsedBefore(p).callback = "onStartUse" /\ ~UsedBefore(p).threw]_vars

\* C21 as stated: every onStartUse call leaves isUsing true, and on one
\* binding onStartUse and onStopUse calls strictly alternate, starting with
\* onStartUse.
C21_StrictAlternation ==
    [][/\ UseRouted
       /\ \A p \in HookPlayers : UseStep(p) =>
             /\ HasCall(calls'[p], "onStartUse") =>
                   /\ UsedBefore(p).callback # "onStartUse"
                   /\ hookedItemWrappersByPlayer'[p].isUsing
             /\ HasCall(calls'[p], "onStopUse") => UsedBefore(p).callback = "onStartUse"]_vars

\* onStopUse has just been called on a binding whose onStartUse had returned.
C21_Witness ==
    \E p \in HookPlayers :
        /\ HasCall(calls[p], "onStopUse")
        /\ lastUse[p].callback = "onStopUse"
        /\ hookedItemWrappersByPlayer[p].exists
        /\ ~hookedItemWrappersByPlayer[p].isUsing

\* C22: when canUse, onStartUse or onStopUse throws, the handler does not
\* throw, isUsing is false afterwards and the binding stays the player's,
\* with its deleteOnNextTick flag and tick counter as they were.
C22_UseErrorBoundary ==
    [][\A p \in HookPlayers :
          (/\ UseStep(p)
           /\ \E i \in 1..Len(calls'[p]) :
              calls'[p][i].threw
              /\ calls'[p][i].callback \in {"canUse", "onStartUse", "onStopUse"}) =>
             /\ ~hookThrew'
             /\ hookedItemWrappersByPlayer[p].exists
             /\ hookedItemWrappersByPlayer'[p] =
                   [hookedItemWrappersByPlayer[p] EXCEPT !.isUsing = FALSE]]_vars

\* onStartUse has just thrown on a binding that had been ticked and is
\* still there, not in use.
C22_Witness ==
    \E p \in HookPlayers :
        /\ HasCall(calls[p], "onStartUse")
        /\ calls[p][Len(calls[p])].threw
        /\ hookedItemWrappersByPlayer[p].exists
        /\ hookedItemWrappersByPlayer[p].currentTick > 0
        /\ ~hookedItemWrappersByPlayer[p].isUsing

\* ------------------------------------------------------- registry claims
\* The step made no tick and called no callback.
RegistryStep ==
    /\ nTicks' = nTicks
    /\ calls' = calls
    /\ hookedItemWrappersByPlayer' = hookedItemWrappersByPlayer

\* C23: register(type, f) for a type that has a factory throws and leaves
\* the registry as it was; for a type that has none it returns and makes f
\* the factory of the type, of that type only; unregister(type) leaves the
\* type without a factory, so that a later register(type, g) succeeds.
C23_RegisterOnce ==
    [][RegistryStep =>
          \A itemType \in ItemTypes :
              /\ \A factory \in hookScope.factories :
                    Register(itemType, factory) =>
                       IF itemType \in DOMAIN factoriesByItemType
                       THEN hookThrew' /\ factoriesByItemType' = factoriesByItemType
                       ELSE /\ ~hookThrew'
                            /\ DOMAIN factoriesByItemType' =
                                  DOMAIN factoriesByItemType \cup {itemType}
                            /\ factoriesByItemType'[itemType] = factory
                            /\ \A other \in DOMAIN factoriesByItemType :
                                  factoriesByItemType'[other] = factoriesByItemType[other]
              /\ Unregister(itemType) =>
                    /\ ~hookThrew'
                    /\ DOMAIN factoriesByItemType' = DOMAIN factoriesByItemType \ {itemType}
                    /\ \A other \in DOMAIN factoriesByItemType' :
                          factoriesByItemType'[other] = factoriesByItemType[other]]_vars

\* A register call for a type that had a factory has just thrown, and the
\* factory registered first is still the type's.
C23_Witness ==
    /\ hookThrew
    /\ "a" \in DOMAIN factoriesByItemType
    /\ factoriesByItemType["a"] = "f"
    /\ "g" \in hookScope.factories

\* ------------------------------------------------- per-tick guard claims
\* The tick finds p invalid, without a component or dead: the binding
\* p had is torn down with one onDelete call, and no other callback is
\* called for p.
GuardedOut(p) ==
    LET old == hookedItemWrappersByPlayer[p]
        log == calls'[p]
    IN world'[p].status \in {"invalid", "nocomp", "dead"} =>
          /\ ~hookedItemWrappersByPlayer'[p].exists
          /\ IF old.exists
             THEN /\ Len(log) = 1
                  /\ log[1].callback = "onDelete"
                  /\ log[1].instance = old.instance
             ELSE log = <<>>

\* A behavior is created for p only by a tick that finds p valid, with its
\* components, alive and holding an item whose type has a factory.
CreatedOnlyWhenFit(p) ==
    nCreated'[p] # nCreated[p] =>
        /\ TickStep
        /\ world'[p].status = "ok"
        /\ world'[p].held \in DOMAIN factoriesByItemType

\* C26: a tick that finds a player invalid, without its equippable, health
\* or inventory component, or with health <= 0 tears the player's binding
\* down with one onDelete call and calls no factory and no onTick for the
\* player; a binding is created only in a tick that finds the player valid,
\* alive and holding a registered item.
C26_GuardsTearDown ==
    [][\A p \in HookPlayers : (TickStep => GuardedOut(p)) /\ CreatedOnlyWhenFit(p)]_vars

\* ----------------------------------------------------------- sweep claims
\* The world ticks made since the module was loaded, counting those that
\* led to the initial cleanupCounter
WorldTicks == nTicks + (CHOOSE counter \in hookScope.counters : TRUE)

\* No binding is left to a player who is invalid or not listed by
\* getPlayers().
NoStaleBinding ==
    \A p \in HookPlayers :
        world[p].status \in {"invalid", "gone"} => ~hookedItemWrappersByPlayer[p].exists

\* C27: every 200th world tick runs the sweep, after which no binding is
\* left to a player who is invalid or not among the active players; so a
\* binding whose player left unnoticed is gone after at most 200 world ticks.
C27_SweepEvery200Ticks ==
    [][(TickStep /\ WorldTicks' % CLEANUP_INTERVAL = 0) => NoStaleBinding']_vars

\* ---------------------------------------------------- state-machine claims
\* C24: changeState(new) calls onExit on the current state, then makes new
\* the current state, then calls onEnter on new, in that order and each
\* exactly once; when onExit throws, the current state stays as it was and
\* onEnter of new is not called.
C24_ChangeStateOrder ==
    [][\A newState \in States : \A outcome \in {"none", "onExit", "onEnter"} :
          ChangeState(newState, outcome) =>
             /\ forwarded'[1].callback = "onExit"
             /\ forwarded'[1].state = state
             /\ forwarded'[1].threw = (outcome = "onExit")
             /\ IF outcome = "onExit"
                THEN Len(forwarded') = 1 /\ state' = state /\ machineThrew'
                ELSE /\ Len(forwarded') = 2
                     /\ forwarded'[2].callback = "onEnter"
                     /\ forwarded'[2].state = newState
                     /\ state' = newState]_vars

\* A transition away from a state that has ticked was refused by its onExit
C24_Witness ==
    /\ Len(forwarded) = 1
    /\ forwarded[1].callback = "onExit"
    /\ forwarded[1].threw
    /\ forwarded[1].state = state
    /\ currentTickOf[state] > 0
    /\ machineThrew

\* The callback was called on the current state and on no other, and the
\* current state stays
ForwardedToCurrent(callback, threw) ==
    /\ forwarded' = <<[state |-> state, callback |-> callback,
                       currentTick |-> currentTickOf[state], threw |-> threw]>>
    /\ state' = state
    /\ machineThrew' = threw

\* Only the current state's counter may move, and only on onTick
OthersKept(callback) ==
    \A s \in States :
       (s # state \/ callback # "onTick") => currentTickOf'[s] = currentTickOf[s]

\* A state object no tick was delivered to reads 0
NewStartsAtZero == \A s \in States : updateCount[s] = 0 => currentTickOf[s] = 0

SnapshotIds(snap) == {snap[k].id : k \in 1..Len(snap)}

ActiveIdSet(list) == {list[k].id : k \in {j \in 1..Len(list) : list[j].active}}

\* A dispatch begins with its first handler running: its snapshot is the
\* subscriptions of the event that were active just before
BeginsWithActive ==
    Len(callStack') > Len(callStack) =>
       LET f == callStack'[Len(callStack')]
       IN  /\ f.i = 1
           /\ Len(f.snap) = Cardinality(SnapshotIds(f.snap))
           /\ SnapshotIds(f.snap) = ActiveIdSet(subscribers[f.ev])

\* While a dispatch runs its snapshot stays, whatever is subscribed,
\* unsubscribed, paused or resumed, and its handlers are called one by one
SnapshotKept ==
    \A k \in 1..Len(callStack) :
       k <= Len(callStack') =>
          /\ callStack'[k].snap = callStack[k].snap
          /\ callStack'[k].ev = callStack[k].ev
          /\ callStack'[k].i \in {callStack[k].i, callStack[k].i + 1}

\* A handler loop ends only after every handler of its snapshot was called
EndsWithAll ==
    Len(callStack') < Len(callStack) =>
       LET f == callStack[Len(callStack)]
       IN  /\ f.i = Len(f.snap)
           /\ IF f.async
              THEN /\ Len(pending') = Len(pending) + 1
                   /\ pending'[Len(pending')].snap = f.snap
                   /\ Len(pending'[Len(pending')].out) = Len(f.snap)
              ELSE /\ ret'.status = "done"
                   /\ ret'.snap = f.snap
                   /\ Len(ret'.out) = Len(f.snap)

\* C28: the handlers one emit or emitAsync invokes are exactly the
\* subscriptions of the event that were active when the dispatch began: a
\* handler subscribed during the dispatch is not invoked in it, and a handler
\* unsubscribed or paused during the dispatch is still invoked in it.
C28_DispatchSnapshot ==
    [][BeginsWithActive /\ SnapshotKept /\ EndsWithAll]_vars

\* The second or a later handler of a dispatch is running although an
\* earlier step of the dispatch unsubscribed or paused it, and a handler
\* subscribed since the dispatch began is not in its snapshot
C28_Witness ==
    /\ callStack # <<>>
    /\ LET f == callStack[Len(callStack)]
       IN  /\ f.i >= 2
           /\ ~f.snap[f.i].once
           /\ f.snap[f.i].id \notin ActiveIdSet(subscribers[f.ev])
           /\ ActiveIdSet(subscribers[f.ev]) \ SnapshotIds(f.snap) # {}

\* ------------------------------------------------------ error sink claims
\* C29: emit never throws to its caller and emitAsync never rejects,
\* whichever handlers throw and also when the configured error sink throws:
\* what the sink throws is caught and the dispatch goes on to the remaining
\* handlers of its snapshot.
C29_EmitNeverThrows ==
    ret.op \in {"emit", "emitAsync"} =>
       /\ ret.status # "threw"
       /\ ret.status = "done" => Len(ret.out) = Len(ret.snap)

\* An emit under a throwing sink returned after a handler threw and a later
\* handler of the same dispatch ran
C29_Witness ==
    /\ scope.onError = "throws"
    /\ ret.op = "emit"
    /\ ret.status = "done"
    /\ Len(ret.out) >= 2
    /\ ret.out[1] = "rejected"
    /\ ret.out[2] = "fulfilled"
    /\ ret.nerr = 1

\* -------------------------------------------------- emission stack claims
\* How often event e occurs in a sequence of events
RECURSIVE Occurrences(_, _)
Occurrences(e, s) ==
    IF s = <<>> THEN 0
    ELSE Occurrences(e, Pop(s)) + (IF s[Len(s)] = e THEN 1 ELSE 0)

\* Whether the events of s occur in t in the same order
RECURSIVE InOrderWithin(_, _)
InOrderWithin(s, t) ==
    IF s = <<>> THEN TRUE
    ELSE IF t = <<>> THEN FALSE
    ELSE IF s[Len(s)] = t[Len(t)] THEN InOrderWithin(Pop(s), Pop(t))
    ELSE InOrderWithin(s, Pop(t))

\* The events of the dispatches whose handler loop is running, outermost
\* first, and of the emitAsync calls waiting for their handlers' promises
Looping == [k \in 1..Len(callStack) |-> callStack[k].ev]

Awaiting == [k \in 1..Len(pending) |-> pending[k].ev]

\* C30: at every moment getEmissionStack() holds exactly the events whose
\* emission is in progress, each in-progress emission once and the nested
\* ones outermost first, and getEmissionDepth() is their number, also when
\* several emitAsync calls are pending and finish in another order than
\* they started.
C30_StackIsEmissionsInProgress ==
    /\ Len(emissionStack) = Len(callStack) + Len(pending)
    /\ \A e \in Events :
          Occurrences(e, emissionStack) = Occurrences(e, Looping) + Occurrences(e, Awaiting)
    /\ InOrderWithin(Looping, emissionStack)

\* ------------------------------------------------------------ damage claims
\* C31: the resistance reduction is 0 without the effect, 20% for amplifier
\* 0, 40% for amplifier 1, 60% for amplifier 2, 80% for amplifier 3 and 100%
\* for every higher amplifier.
C31_ResistanceLevels ==
    resistanceReduction # NotCalled =>
       resistanceReduction =
          (IF resistanceEffect = NoEffect THEN 0
           ELSE IF resistanceEffect >= 4 THEN 100
           ELSE 20 * (resistanceEffect + 1))

\* ------------------------------------------------------ binding life claims
\* The step is a call of the registry, which dispatches nothing and leaves
\* the record of the step before it in place
RegistryCall ==
    \/ UnregisterAll
    \/ \E itemType \in ItemTypes :
          \/ Unregister(itemType)
          \/ \E factory \in hookScope.factories : Register(itemType, factory)

\* Player p's binding was in the table before the step and is not after it
Removed(p) ==
    /\ hookedItemWrappersByPlayer[p].exists
    /\ \/ ~hookedItemWrappersByPlayer'[p].exists
       \/ hookedItemWrappersByPlayer'[p].instance # hookedItemWrappersByPlayer[p].instance

\* The behaviors of p that are in the table before or after the step
Bound(p) ==
    {w.instance : w \in {v \in {hookedItemWrappersByPlayer[p], hookedItemWrappersByPlayer'[p]} :
                           v.exists}}

\* A binding that enters the table holds a behavior made by this step
MadeNew(p) ==
    (/\ hookedItemWrappersByPlayer'[p].exists
     /\ \/ ~hookedItemWrappersByPlayer[p].exists
        \/ hookedItemWrappersByPlayer'[p].instance # hookedItemWrappersByPlayer[p].instance)
    => /\ hookedItemWrappersByPlayer'[p].instance = nCreated'[p]
       /\ nCreated'[p] = nCreated[p] + 1

\* In the step, the removed behavior of p got onDelete once and nothing
\* after it, a behavior that stays got no onDelete, and no callback went to
\* a behavior that is not in the table
DeletedOnce(p) ==
    LET log == calls'[p]
        dels == {i \in 1..Len(log) : log[i].callback = "onDelete"}
    IN  /\ IF Removed(p)
           THEN \E i \in dels :
                   /\ dels = {i}
                   /\ log[i].instance = hookedItemWrappersByPlayer[p].instance
                   /\ \A j \in (i + 1)..Len(log) :
                         log[j].callback # "factory" =>
                            log[j].instance # hookedItemWrappersByPlayer[p].instance
           ELSE dels = {}
        /\ \A i \in 1..Len(log) : log[i].callback # "factory" => log[i].instance \in Bound(p)
        /\ MadeNew(p)

\* C32: every binding that leaves the per-player table gets onDelete exactly
\* once, in the step that removes it, and no callback is dispatched to its
\* behavior after that onDelete, in that step or in any later one: a step
\* dispatches only to behaviors that are in the table.
C32_DeletedOnceThenSilent ==
    [][~RegistryCall => \A p \in HookPlayers : DeletedOnce(p)]_vars

\* A binding was replaced in a tick: onDelete to the old behavior, then the
\* factory and onTick of the new one
C32_Witness ==
    \E p \in HookPlayers :
       /\ Len(calls[p]) = 3
       /\ calls[p][1].callback = "onDelete"
       /\ calls[p][3].callback = "onTick"
       /\ calls[p][3].instance = calls[p][1].instance + 1
       /\ hookedItemWrappersByPlayer[p].exists
       /\ hookedItemWrappersByPlayer[p].instance = calls[p][3].instance

\* ---------------------------------------------------- empty registry claims
EmptyRegistry == DOMAIN factoriesByItemType = {}

\* The tick left the dispatcher as it was and called nothing
TickDidNothing ==
    /\ hookedItemWrappersByPlayer' = hookedItemWrappersByPlayer
    /\ calls' = NoCalls
    /\ nCreated' = nCreated
    /\ onTickCount' = onTickCount
    /\ cleanupCounter' = cleanupCounter
    /\ ~hookThrew'

\* While the registry is empty only playerLeave and shutdown remove a binding
OnlyLeaveOrShutdownRemove ==
    \A p \in HookPlayers :
       Removed(p) =>
          \/ \E outcome \in {"none", "onDelete"} : PlayerLeave(p, outcome)
          \/ \E outcomes \in Outcomes : Shutdown(outcomes)

\* While the registry is empty a binding still gets the events of its player
StillNotified ==
    \A p \in HookPlayers :
       hookedItemWrappersByPlayer[p].exists =>
          /\ \A callback \in EntityCallbacks : \A outcome \in {"none"} \cup EntityCallbacks :
                EntityEvent(p, callback, outcome) =>
                   /\ Len(calls'[p]) = 1
                   /\ calls'[p][1].callback = callback
                   /\ calls'[p][1].instance = hookedItemWrappersByPlayer[p].instance
          /\ (/\ ~hookedItemWrappersByPlayer[p].isUsing
              /\ ItemStartUse(p, hookedItemWrappersByPlayer[p].itemType,
                              hookedItemWrappersByPlayer[p].initialSlotIndex, "none"))
             => /\ HasCall(calls'[p], "onStartUse")
                /\ hookedItemWrappersByPlayer'[p].isUsing
          /\ (/\ hookedItemWrappersByPlayer[p].isUsing
              /\ ItemStopUse(p, hookedItemWrappersByPlayer[p].itemType,
                             hookedItemWrappersByPlayer[p].initialSlotIndex, "none"))
             => /\ HasCall(calls'[p], "onStopUse")
                /\ ~hookedItemWrappersByPlayer'[p].isUsing

FlaggedAndHeld(p) ==
    /\ hookedItemWrappersByPlayer[p].exists
    /\ hookedItemWrappersByPlayer[p].deleteOnNextTick
    /\ world'[p].status = "ok"
    /\ world'[p].held = hookedItemWrappersByPlayer[p].itemType
    /\ world'[p].slot = hookedItemWrappersByPlayer[p].initialSlotIndex
    /\ world'[p].held \in DOMAIN factoriesByItemType

\* The tick only tore the binding down
OnlyTornDown(p) ==
    /\ Len(calls'[p]) = 1
    /\ calls'[p][1].callback = "onDelete"
    /\ calls'[p][1].instance = hookedItemWrappersByPlayer[p].instance
    /\ ~hookedItemWrappersByPlayer'[p].exists
    /\ nCreated'[p] = nCreated[p]

\* The tick before only tore p's binding down, and this tick finds p as that
\* one did, holding a registered item
AfterTeardown(p) ==
    /\ ~hookedItemWrappersByPlayer[p].exists
    /\ Len(calls[p]) = 1
    /\ calls[p][1].callback = "onDelete"
    /\ world[p].status = "ok"
    /\ world'[p] = world[p]
    /\ world[p].held \in DOMAIN factoriesByItemType

\* The tick called the registered factory and, unless it threw, bound the new
\* behavior with a fresh shared state and gave it its first onTick
BoundAfresh(p) ==
    LET log == calls'[p]
        new == hookedItemWrappersByPlayer'[p]
    IN  /\ Len(log) >= 1
        /\ log[1].callback = "factory"
        /\ nCreated'[p] = nCreated[p] + 1
        /\ IF log[1].threw
           THEN Len(log) = 1 /\ ~new.exists
           ELSE /\ Len(log) = 2
                /\ log[2].callback = "onTick"
                /\ log[2].instance = nCreated'[p]
                /\ log[2].currentTick = 0
                /\ new.exists
                /\ new.instance = nCreated'[p]
                /\ new.factory = factoriesByItemType[world[p].held]
                /\ new.itemType = world[p].held
                /\ new.initialSlotIndex = world[p].slot
                /\ ~new.isUsing
                /\ new.deleteOnNextTick = log[2].threw
                /\ new.currentTick = (IF log[2].threw THEN 0 ELSE 1)

\* C34: a tick that tears a binding down because deleteOnNextTick is set,
\* while the player holds the same registered item in the same slot, creates
\* no binding and calls no onTick for the player; the following tick, the
\* player still holding that registered item, calls the registered factory
\* and binds the new behavior with tick counter 0, isUsing false and
\* deleteOnNextTick false before its first onTick; so a behavior whose onTick
\* always throws is created again every second tick.
C34_DeleteOnNextTickCycle ==
    [][TickStep =>
          \A p \in HookPlayers :
             /\ FlaggedAndHeld(p) => OnlyTornDown(p)
             /\ AfterTeardown(p) => BoundAfresh(p)]_vars

\* The second behavior of a player threw in its first onTick, in the third
\* tick, as the first had in the first tick
C34_Witness ==
    \E p \in HookPlayers :
       /\ nTicks = 3
       /\ nCreated[p] = 2
       /\ Len(calls[p]) = 2
       /\ calls[p][1].callback = "factory"
       /\ calls[p][2].callback = "onTick"
       /\ calls[p][2].threw
       /\ hookedItemWrappersByPlayer[p].exists
       /\ hookedItemWrappersByPlayer[p].instance = 2
       /\ hookedItemWrappersByPlayer[p].deleteOnNextTick
       /\ hookedItemWrappersByPlayer[p].currentTick = 0

\* -------------------------------------------------- teardown in use claims
\* p's binding was in use and the step removed it: its behavior got
\* onDelete and nothing else, no onStopUse was called, and a binding made in
\* its place is not in use
TornDownInUse(p) ==
    LET old == hookedItemWrappersByPlayer[p]
        new == hookedItemWrappersByPlayer'[p]
        log == calls'[p]
    IN  (Removed(p) /\ old.isUsing) =>
           /\ ~HasCall(log, "onStopUse")
           /\ \A i \in 1..Len(log) :
                 (log[i].callback # "factory" /\ log[i].instance = old.instance)
                    => log[i].callback = "onDelete"
           /\ HasCall(log, "onDelete")
           /\ new.exists => ~new.isUsing /\ new.instance # old.instance

\* A stop-use event for a binding that is not in use calls nothing and
\* changes nothing: no step that does either is such an event
StopIgnored(p) ==
    (/\ hookedItemWrappersByPlayer[p].exists
     /\ ~hookedItemWrappersByPlayer[p].isUsing
     /\ nTicks' = nTicks
     /\ ~(/\ calls'[p] = <<>>
          /\ hookedItemWrappersByPlayer'[p] = hookedItemWrappersByPlayer[p]))
    => \A itemStack \in {NoItem} \cup ItemTypes : \A selectedSlotIndex \in Slots :
          \A outcome \in {"none", "onStopUse"} :
             ~ItemStopUse(p, itemStack, selectedSlotIndex, outcome)

\* C35: a binding that is torn down while isUsing is true (item switch, slot
\* change, death, leave, shutdown, deleteOnNextTick) gets onDelete only:
\* no onStopUse is dispatched for the use in progress; the binding created
\* after it starts with isUsing false, so that a stop-use event that arrives
\* then is ignored.
C35_TeardownInUse ==
    [][~RegistryCall => \A p \in HookPlayers : TornDownInUse(p) /\ StopIgnored(p)]_vars

\* The first behavior's use was never stopped; the second behavior is bound,
\* not in use, and the latest event for the player called nothing
C35_Witness ==
    \E p \in HookPlayers :
       /\ hookedItemWrappersByPlayer[p].exists
       /\ hookedItemWrappersByPlayer[p].instance = 2
       /\ ~hookedItemWrappersByPlayer[p].isUsing
       /\ lastUse[p].instance = 1
       /\ lastUse[p].callback = "onStartUse"
       /\ ~lastUse[p].threw
       /\ calls[p] = <<>>

\* ------------------------------------------------ subscription identity claims
\* The subscribers of every event, as one set
Listed(subs) == UNION {Range(subs[e]) : e \in Events}

ListedIds(subs) == {sub.id : sub \in Listed(subs)}

\* Every listed id was issued, is listed once over all the lists, and is
\* listed under the event its handle closes over
IdsIssuedOnce ==
    /\ Len(handles) = idCounter
    /\ \A e \in Events : \A k \in 1..Len(subscribers[e]) :
          /\ subscribers[e][k].id < idCounter
          /\ handles[subscribers[e][k].id + 1] = e
          /\ \A f \in Events : \A m \in 1..Len(subscribers[f]) :
                subscribers[f][m].id = subscribers[e][k].id => (f = e /\ m = k)

\* isActive() of the handle of id reports the flag of the subscriber with
\* that id, and false once it is listed nowhere
ReportsOwn ==
    \A id \in 0..(idCounter - 1) :
       isSubscriptionActive(subscribers, handles[id + 1], id)
          = (\E sub \in Listed(subscribers) : sub.id = id /\ sub.active)

\* The counter never goes back, the event of a handle never changes, and a
\* subscription listed after the step was listed before it or has the id the
\* counter held before it: a fresh one
IssuedFresh ==
    /\ idCounter' >= idCounter
    /\ SubSeq(handles', 1, idCounter) = handles
    /\ \A id \in ListedIds(subscribers') \ ListedIds(subscribers) :
          id = idCounter /\ idCounter' = idCounter + 1

\* An issued id that is listed nowhere is listed nowhere after the step,
\* whatever the step is
StaysRemoved ==
    \A id \in 0..(idCounter - 1) :
       id \notin ListedIds(subscribers) => id \notin ListedIds(subscribers')

\* The step changed a subscriber other than the one with this id
OthersChanged(id) ==
    \E e \in Events :
       RemoveById(subscribers'[e], id) # RemoveById(subscribers[e], id)

\* No step that changes another subscriber is a call of a function of the
\* handle of id
OwnOnly ==
    \A id \in 0..(idCounter - 1) :
       OthersChanged(id) => ~(Unsubscribe(id) \/ Pause(id) \/ Resume(id))

\* C36: every subscription gets an id that is never reused, the functions of
\* a handle (unsubscribe, pause, resume, isActive) act and report on the
\* subscription with that id only, and a subscription that was removed
\* stays removed: resume() does not list it again and isActive() is false.
C36_SubscriptionIdentity ==
    /\ [](IdsIssuedOnce /\ ReportsOwn)
    /\ [][<<subscribers, idCounter, handles>>' # <<subscribers, idCounter, handles>>
             => IssuedFresh /\ StaysRemoved /\ OwnOnly]_vars

\* Two subscriptions were made for A; the first was removed, its handle
\* reports false, and the second is listed alone and reports true
C36_Witness ==
    /\ idCounter = 2
    /\ handles = <<"A", "A">>
    /\ ListedIds(subscribers) = {1}
    /\ ~isSubscriptionActive(subscribers, "A", 0)
    /\ isSubscriptionActive(subscribers, "A", 1)

\* ------------------------------------------- concurrent async emission claims
\* An emitAsync call of e is suspended at its await
AwaitingEvent(e) == \E p \in 1..Len(pending) : pending[p].ev = e

\* The step ended a call at the same-event guard: nothing was invoked, the
\* result is empty and one error went to the sink
RejectedAsRecursive(e) ==
    /\ callStack' = callStack
    /\ ret'.op # "none"
    /\ ret'.ev = e
    /\ ret'.status = "recursive"
    /\ ret'.results = <<>>
    /\ ret'.failed = <<>>
    /\ ret'.nerr = 1

\* C37: while an emitAsync(E) call is pending, every other emit(E) or
\* emitAsync(E) call invokes no handler, returns an empty result and reports
\* a recursive-emission error: no step that does otherwise is such a call.
\* Stated here for the calls made while E has subscribers.
C37_PendingAsyncBlocksSameEvent ==
    [][\A e \in Events :
          (AwaitingEvent(e) /\ subscribers[e] # <<>> /\ ~RejectedAsRecursive(e))
             => \A async \in BOOLEAN : ~Emit(e, async)]_vars

\* ------------------------------------------------- synchronous emit only
\* The emitter used with emit alone: two events, up to MaxSubsTwo
\* subscriptions, up to MaxCallsSync nested emit calls, and removeAllListeners
\* called between emissions only.
SyncScope ==
    [events |-> Events, subs |-> MaxSubsTwo, calls |-> MaxCallsSync, async |-> FALSE,
     onError |-> "returns"]

SyncInit ==
    /\ scope = SyncScope
    /\ subscribers = [e \in Events |-> <<>>]
    /\ idCounter = 0
    /\ isEmitting = {}
    /\ emissionStack = <<>>
    /\ maxEmissionDepth = DefaultMaxEmissionDepth
    /\ handles = <<>>
    /\ callStack = <<>>
    /\ pending = <<>>
    /\ ret = NoRet
    /\ invoked = [k \in 1..scope.subs |-> 0]
    /\ TimelineInit(1, {0})
    /\ HookIdle /\ MachineIdle /\ DamageIdle

SyncNext ==
    \/ \E e \in scope.events, once \in BOOLEAN, priority \in Priorities :
          On(e, once, priority)
    \/ \E id \in 0..(scope.subs - 1) : Unsubscribe(id)
    \/ \E e \in scope.events : Off(e)
    \/ callStack = <<>> /\ RemoveAllListeners
    \/ \E id \in 0..(scope.subs - 1) : Pause(id)
    \/ \E id \in 0..(scope.subs - 1) : Resume(id)
    \/ \E depth \in Depths : SetMaxEmissionDepth(depth)
    \/ \E e \in scope.events : Emit(e, FALSE)
    \/ \E outcome \in {"fulfilled", "rejected"} : HandlerEnd(outcome)

SyncSpec == SyncInit /\ [][SyncNext]_vars

\* ------------------------------------------------------ nested emit claims
\* No event name is on the emission stack twice
NoNameTwice == \A e \in Events : Occurrences(e, emissionStack) <= 1

\* The events that have subscribers
Subscribed == {e \in Events : subscribers[e] # <<>>}

\* The stack is the emit calls in progress, outermost first, all of them of
\* different events
StackIsNesting ==
    /\ emissionStack = Looping
    /\ isEmitting = Range(emissionStack)
    /\ Len(emissionStack) = Cardinality(Range(emissionStack))

\* An event is pushed only while it has subscribers
PushedWhileSubscribed ==
    \A e \in Events :
       emissionStack' = Append(emissionStack, e) => e \in Subscribed

\* The step ended a call at the head of emit without touching the stack and
\* without invoking a handler: at the same-event guard, with an error
\* reported, when the event has subscribers, silently when it has none
StoppedAtHead(e) ==
    /\ callStack' = callStack
    /\ emissionStack' = emissionStack
    /\ ret'.op = "emit"
    /\ ret'.ev = e
    /\ ret'.results = <<>>
    /\ IF e \in Subscribed
       THEN ret'.status = "recursive" /\ ret'.nerr = 1
       ELSE ret'.status = "nosubs" /\ ret'.nerr = 0

\* No step that does otherwise is an emit of a name already on the stack
NestedSameNameStopped ==
    \A e \in Range(emissionStack) : ~StoppedAtHead(e) => ~Emit(e, FALSE)

\* C38 as documented: the stack never holds a name twice and the depth never
\* exceeds the number of event names that have subscribers.
C38_DepthWithinSubscribed ==
    NoNameTwice /\ Len(emissionStack) <= Cardinality(Subscribed)

\* C38: with emit alone and no removeAllListeners inside a handler, the
\* emission stack never holds the same name twice; a nested emit of a name
\* on the stack invokes no handler and leaves the stack as it is, so that a
\* cycle A->B->A stops at the second A with depth 2; the depth is the number
\* of distinct names being emitted, each of which had subscribers when its
\* emission began.
C38_NoNameTwiceOnStack ==
    /\ [](NoNameTwice /\ StackIsNesting)
    /\ [][PushedWhileSubscribed /\ NestedSameNameStopped]_vars

\* A handler of A emitted B, whose handler emitted A: that call was
\* rejected as recursive with the depth at 2
C38_Witness ==
    /\ emissionStack = <<"A", "B">>
    /\ Looping = <<"A", "B">>
    /\ ret.op = "emit"
    /\ ret.ev = "A"
    /\ ret.status = "recursive"

\* ------------------------------------------------------ guard release claims
\* Every emit call has returned and every emitAsync promise has settled
Quiescent == callStack = <<>> /\ pending = <<>>

\* getEmissionDepth() is 0 and no event is marked as emitting
GuardsReleased == emissionStack = <<>> /\ isEmitting = {}

\* An emit or emitAsync made in a quiescent state for an event with active
\* subscribers starts its first handler: no step that leaves the call stack
\* empty is such a call
DispatchedAfterwards ==
    \A e \in scope.events :
       (Quiescent /\ ActiveSnapshot(subscribers[e]) # <<>> /\ callStack' = <<>>)
          => \A async \in {a \in BOOLEAN : a => scope.async} : ~Emit(e, async)

\* C39: once every emit call has returned and every emitAsync promise has
\* settled, the emission depth is 0 and no event is marked as emitting,
\* whatever the handlers and the error sink did; an emit made then for an
\* event with active subscribers is dispatched and not rejected.
C39_GuardsReleasedWhenQuiescent ==
    /\ [](Quiescent => GuardsReleased)
    /\ [][DispatchedAfterwards]_vars

\* With an error sink that throws, an emitAsync whose handler rejected has
\* settled and nothing is in progress any more
C39_Witness ==
    /\ SinkThrows
    /\ Quiescent
    /\ GuardsReleased
    /\ ret.op = "emitAsync"
    /\ ret.status = "done"
    /\ ret.failed # <<>>

\* ------------------------------------------------------------ retry claims
\* What an aborted call leaves: the event that threw is unexecuted and
\* lastProcessedTick is what it was when the callbacks began to run, its
\* value from before the call or -1 when the call had moved backward
AbortLeaves ==
    lastCall.threw =>
       /\ lastCall.thrower \in 1..Len(sortedEvents)
       /\ ~sortedEvents[lastCall.thrower].executed
       /\ lastProcessedTick = (IF lastCall.tick < prevTick THEN -1 ELSE prevTick)

\* Every event up to lastProcessedTick is marked executed
ProcessedAreExecuted ==
    \A j \in 1..Len(sortedEvents) :
       sortedEvents[j].tick <= lastProcessedTick => sortedEvents[j].executed

\* The step is a process call that follows an aborted one, does not move
\* backward and reaches the tick of the event that failed
RetryStep ==
    /\ lastCall.threw
    /\ nProcess' = nProcess + 1
    /\ lastCall'.op = "process"
    /\ lastCall'.tick >= lastProcessedTick
    /\ lastCall'.tick >= sortedEvents[lastCall.thrower].tick

\* The retry calls the failed callback first; if no callback throws it
\* fires that event and every later one that is due, in order; it calls
\* none of the callbacks the aborted call had run
RetryRuns ==
    LET failed == lastCall.thrower
        firstCalled == IF firedOrder' # <<>> THEN firedOrder'[1] ELSE lastCall'.thrower
    IN  /\ firstCalled = failed
        /\ ~lastCall'.threw =>
              /\ lastFired' = {j \in failed..Len(sortedEvents) :
                                  sortedEvents[j].tick <= lastCall'.tick}
              /\ \A i \in 1..(Len(firedOrder') - 1) : firedOrder'[i] < firedOrder'[i + 1]
        /\ lastFired' \cap lastFired = {}
        /\ lastCall'.thrower \notin lastFired

\* C40 as documented: after a call in which a callback threw,
\* lastProcessedTick has its value from before the call.
C40_AbortKeepsLastProcessedTick ==
    lastCall.threw => lastProcessedTick = prevTick

\* C40: when a callback throws inside process(t) that event stays unexecuted
\* and lastProcessedTick is not advanced (it is -1 when the call had moved
\* backward); the next process call, when it does not move backward and
\* reaches that event's tick, invokes the failed callback again, then the
\* later due events, and none of the callbacks that succeeded in the aborted
\* call; every event with tick <= lastProcessedTick is marked executed.
C40_RetryAfterFailedCallback ==
    /\ [](AbortLeaves /\ ProcessedAreExecuted)
    /\ [][RetryStep => RetryRuns]_vars

\* The first call fired an event and was aborted by the next one; the
\* second call fired the event that had failed and one after it, and not
\* the one the first call had fired
C40_Witness ==
    /\ nProcess = 2
    /\ lastCall.op = "process"
    /\ ~lastCall.threw
    /\ completedBefore = -1
    /\ Len(firedOrder) >= 2
    /\ \E j \in 1..Len(sortedEvents) :
          /\ sortedEvents[j].executed
          /\ j \notin lastFired
          /\ fireCount[j] = 1
          /\ j < firedOrder[1]

====
